---- MODULE Spec2Model ----
(***************************************************************************)
(* Partition lifecycle and registry layer over an LMDB environment:        *)
(* StoreManager (registry of open partitions), PartitionManager (handle),  *)
(* DayPartitionManager (day buckets with retention pruning) and            *)
(* ReaderCheckManager (periodic reader-lock reclamation).                  *)
(*                                                                         *)
(* The storage engine is a black box.  Of it the model keeps: the set of   *)
(* sub-database names recorded in the root database (disk), the entries of *)
(* each sub-database (data), the state of every handle openDB returned     *)
(* (handles), and the engine calls that were issued and have not settled   *)
(* or whose awaiting continuation has not run yet (tasks).                 *)
(***************************************************************************)
EXTENDS Integers, Sequences, FiniteSets, TLC

\* ------------------------------------------------------------------ bounds
\* Handles the engine hands out over a run (the metadata handle included).
MaxHandles == 3
\* Engine calls in flight (issued, continuation not yet run) at one time.
MaxTasks == 1
\* Invocations of database.readerCheck() over a run.
MaxChecks == 3
\* Intervals scheduled at one time before no more are scheduled.
MaxIntervals == 2
\* Keys in one getMany call.
MaxKeys == 3

\* The StoreManager's periodicMs: 15 * 60_000.
StorePeriodicMs == 900000

\* --------------------------------------------------------- program constants
SECONDS_IN_DAY == 86400
\* maxDaysRetention value that disables retention.
RetentionDisabled == -1

\* ------------------------------------------------------------------- names
\* A partition name is <pfx> or <pfx>_<sfx>, sfx the 8 digits of a day
\* (kept as the number they spell; sfx = 0 stands for "no suffix").
PlainName(p) == [pfx |-> p, sfx |-> 0]

\* The reserved system partition of StoreManager.
META == PlainName("_metadata")

\* The allocator's partitionPrefix option.
PartitionPrefix == "events"

\* --------------------------------------------------------------- day buckets
\* Civil date of a day number (days since 1970-01-01), as Date#getUTC* give it.
CivilYMD(z0) ==
    LET z   == z0 + 719468
        era == z \div 146097
        doe == z - era * 146097
        yoe == (doe - doe \div 1460 + doe \div 36524 - doe \div 146096) \div 365
        doy == doe - (365 * yoe + yoe \div 4 - yoe \div 100)
        mp  == (5 * doy + 2) \div 153
        d   == doy - (153 * mp + 2) \div 5 + 1
        m   == IF mp < 10 THEN mp + 3 ELSE mp - 9
        y   == yoe + era * 400 + (IF m <= 2 THEN 1 ELSE 0)
    IN  [y |-> y, m |-> m, d |-> d]

\* daySuffix that reads the date in a time zone one hour east of UTC.
daySuffixLocalTime(tsSec) ==
    LET c == CivilYMD((tsSec + 3600) \div SECONDS_IN_DAY)
    IN  c.y * 10000 + c.m * 100 + c.d

\* daySuffix(tsSec): `${y}${m padded to 2}${day padded to 2}`, as a number.
daySuffix(tsSec) ==
    LET c == CivilYMD(tsSec \div SECONDS_IN_DAY)
    IN  c.y * 10000 + c.m * 100 + c.d

\* dayRange that rounds towards zero instead of down.
dayRangeTruncating(tsSec) ==
    LET q == IF tsSec >= 0 THEN tsSec \div SECONDS_IN_DAY
             ELSE 0 - ((0 - tsSec) \div SECONDS_IN_DAY)
    IN  [start |-> q * SECONDS_IN_DAY, end |-> q * SECONDS_IN_DAY + SECONDS_IN_DAY - 1]

\* dayRange(tsSec): Math.floor(tsSec / secondsInDay) * secondsInDay and the
\* last second of that day.
dayRange(tsSec) ==
    LET start == (tsSec \div SECONDS_IN_DAY) * SECONDS_IN_DAY
    IN  [start |-> start, end |-> start + SECONDS_IN_DAY - 1]

\* partitionName(tsSec)
partitionName(tsSec) == [pfx |-> PartitionPrefix, sfx |-> daySuffix(tsSec)]

\* ------------------------------------------------------------ model universe
\* The UTC day number (days since 1970-01-01) on which the run takes place.
Today == 20454

\* Days whose buckets the run may touch, and the timestamps callers pass:
\* the first and the last second of the days around them.
BucketDays == {Today - 2, Today - 1, Today}
TsDays == (Today - 3) .. (Today + 1)
TsInputs == UNION {{d * SECONDS_IN_DAY, d * SECONDS_IN_DAY + SECONDS_IN_DAY - 1} : d \in TsDays}

\* Timestamps callers pass to dayRange and partitionName: the first and the
\* last second of days before and at the epoch, around a leap day, and
\* around the day of the run.
DayInputDays == {-1, 0, 19782, 19783, Today - 1, Today}
DayInputs == UNION {{d * SECONDS_IN_DAY, d * SECONDS_IN_DAY + SECONDS_IN_DAY - 1} : d \in DayInputDays}

\* Values Date.now() / 1000 takes (seconds).
NowInputs == {Today * SECONDS_IN_DAY + SECONDS_IN_DAY \div 2}

BucketNames == {partitionName(d * SECONDS_IN_DAY) : d \in BucketDays}
\* Every partition name of a run.
Names == {META, PlainName("users")} \cup BucketNames
\* Names callers pass to the registry themselves.
StoreNames == {META, PlainName("users"), partitionName((Today - 1) * SECONDS_IN_DAY)}

\* Partition options callers pass (the encoding stands for the whole object).
\* They go to openDB unread by this layer and are not part of the state.
Options == {"json", "msgpack"}

\* maxDaysRetention values callers construct the allocator with: the numbers
\* num / den (den > 0), among them -1, -2, 0, 1, 2, -0.5, 0.5 and 1.5.
Num(n, d) == [num |-> n, den |-> d]
RetentionInputs ==
    {Num(RetentionDisabled, 1), Num(-2, 1), Num(0, 1), Num(1, 1), Num(2, 1),
     Num(-1, 2), Num(1, 2), Num(3, 2)}

Keys == {"k"}
Vals == {"v"}
\* get(key) of a key that has no entry (undefined).
Absent == "absent"
EmptyDb == [k \in Keys |-> Absent]

\* No handle (undefined).
NoHandle == 0

\* ---------------------------------------------------------------- the state
VARIABLES
    env,          \* "open" | "closed": the root database (StoreManager.database)
    disk,         \* names of the sub-databases recorded in the root database
    data,         \* data[n][k]: the entry of key k in sub-database n
    handles,      \* handles[h]: the h-th handle openDB returned: [name, st, via], via the
                  \* call that opened it ("new" | "create" | "open")
    partitions,   \* StoreManager.partitions: name -> handle (a function on the tracked names)
    timer,        \* ReaderCheckManager.timer is not null
    intervals,    \* the intervals setInterval scheduled for check() and nobody cleared
    rcm,          \* "none" | "made": whether a ReaderCheckManager was constructed
    checks,       \* how many times database.readerCheck() was invoked
    periodicMs,   \* ReaderCheckManager.options.periodicMs
    readOnly,     \* LMDBMap.options.readOnly
    txn,          \* the callback handed to database.transaction(), until it settles
    tasks,        \* engine calls in flight: [owner, call, name, h, st]
    shut,         \* position of shutdown(): "idle" | "closing" | "envclose" | "done"
    alloc,        \* "none" | "ready": whether a DayPartitionManager was constructed
    maxDaysRetention, \* DayPartitionManager.options.maxDaysRetention
    cache,        \* DayPartitionManager.partitions: name -> handle
    isPruning,    \* DayPartitionManager.isPruning
    unhandled,    \* a drop() promise of a prune pass rejected with no handler attached
    now,          \* the clock, seconds since the epoch
    last          \* the call that has just returned or thrown: [op, name, res, h]

vars == <<env, disk, data, handles, partitions, timer, intervals, rcm, checks, periodicMs, readOnly, txn,
          tasks, shut,
          alloc, maxDaysRetention, cache, isPruning, unhandled, now, last>>

allocVars == <<alloc, maxDaysRetention, cache, isPruning, unhandled>>
readerVars == <<timer, intervals, rcm, checks, periodicMs>>
mapVars == <<readOnly, txn>>

\* ------------------------------------------------------------------ helpers
Tracked == DOMAIN partitions
MapSet(f, k, v) == [x \in (DOMAIN f) \cup {k} |-> IF x = k THEN v ELSE f[x]]
MapDelete(f, k) == [x \in (DOMAIN f) \ {k} |-> f[x]]
EmptyMap == [x \in {} |-> NoHandle]
\* Map.get(k): the value, or undefined.
MapGet(f, k) == IF k \in DOMAIN f THEN f[k] ELSE NoHandle

\* What a call hands to its caller: the result (or the error thrown) and,
\* when it returns a handle, the handle.  The caller takes it in the next
\* step (callReturns); until then nothing else runs.
Returned(op, n, res, h) == [op |-> op, name |-> n, res |-> res, h |-> h]
Idle == Returned("idle", META, "ok", NoHandle)

\* No callback is queued.
NoTxn == [st |-> "none"]

callReturns ==
    /\ last # Idle
    /\ last' = Idle
    /\ UNCHANGED <<env, disk, data, handles, partitions, readerVars, tasks, shut, allocVars, now, mapVars>>

\* ------------------------------------------------------- engine primitives
\* rootDatabase.openDB({...options, name}): opens the sub-database, creating
\* it when the root database has no such name; yields a new handle.
OpenDBHandles(hs, n, via) == Append(hs, [name |-> n, st |-> "open", via |-> via])
OpenDBDisk(n) == disk \cup {n}

\* database.doesExist(name) / database.get(name) !== undefined on the root.
doesExist(n) == n \in disk

\* A handle callers can still use: neither closed nor dropped.
Live(h) == h \in 1..Len(handles) /\ handles[h].st = "open"

\* ------------------------------------------------------- StoreManager: reads
\* listPartitions(): the root database's keys without the reserved name.
listPartitions == {n \in disk : n # META}

\* hasPartition(name)
hasPartition(n) == doesExist(n)

\* ---------------------------------------------------- StoreManager: the state
\* after the constructor: environment open, reader checks running
\* (periodicMs = 15 min), the metadata partition opened as the first handle.
StoreInit ==
    /\ env = "open"
    /\ disk = {META}
    /\ data = [n \in Names |-> EmptyDb]
    /\ handles = <<[name |-> META, st |-> "open", via |-> "new"]>>
    /\ partitions = EmptyMap
    /\ timer = TRUE
    /\ intervals = 1
    /\ rcm = "made"
    /\ checks = 1
    /\ periodicMs = StorePeriodicMs
    /\ readOnly = FALSE
    /\ txn = NoTxn
    /\ tasks = {}
    /\ shut = "idle"

Init ==
    /\ StoreInit
    /\ alloc = "none"
    /\ maxDaysRetention = RetentionDisabled
    /\ cache = EmptyMap
    /\ isPruning = FALSE
    /\ unhandled = FALSE
    /\ now \in NowInputs
    /\ last = Idle

\* The public metadata accessor (StoreManager.metadata): the first handle.
metadata == 1

\* A synchronous call starts: the caller is running and the environment is
\* open (calls on a closed environment are left to the engine).
CanCall == last = Idle /\ env = "open"

\* ------------------------------------------------ StoreManager: createPartition
\* Throws when the root database has the name or the name is reserved;
\* otherwise opens (creates) the sub-database and tracks the new handle.
createThrows(n) == doesExist(n) \/ n = META

\* createPartition that does not track the partition it made.
createRegistersNothing(n, h) == partitions

\* this.partitions.set(partitionName, partition)
createRegisters(n, h) == MapSet(partitions, n, h)

createPartition(n, o) ==
    /\ CanCall
    /\ IF createThrows(n)
       THEN /\ last' = Returned("createPartition", n, "AlreadyExists", NoHandle)
            /\ UNCHANGED <<disk, handles, partitions>>
       ELSE /\ Len(handles) < MaxHandles
            /\ handles' = OpenDBHandles(handles, n, "create")
            /\ disk' = OpenDBDisk(n)
            /\ partitions' = createRegisters(n, Len(handles) + 1)
            /\ last' = Returned("createPartition", n, "ok", Len(handles) + 1)
    /\ UNCHANGED <<env, data, readerVars, tasks, shut, allocVars, now, mapVars>>

\* -------------------------------------------------- StoreManager: openPartition
\* Reserved name: throws.  Tracked: the cached handle, options ignored.
\* Not in the root database: throws.  Otherwise opens and tracks a new handle.
\* openPartition without the reserved-name check.
openReservedNever(n) == FALSE

openReserved(n) == n = META

\* openPartition that never takes the tracked handle.
openCachedNever(n, o) == FALSE

openCached(n, o) == n \in Tracked

openPartition(n, o) ==
    /\ CanCall
    /\ IF openReserved(n)
       THEN /\ last' = Returned("openPartition", n, "NotOpenable", NoHandle)
            /\ UNCHANGED <<disk, handles, partitions>>
       ELSE IF openCached(n, o)
       THEN /\ last' = Returned("openPartition", n, "ok", partitions[n])
            /\ UNCHANGED <<disk, handles, partitions>>
       ELSE IF ~doesExist(n)
       THEN /\ last' = Returned("openPartition", n, "NotFound", NoHandle)
            /\ UNCHANGED <<disk, handles, partitions>>
       ELSE /\ Len(handles) < MaxHandles
            /\ handles' = OpenDBHandles(handles, n, "open")
            /\ disk' = OpenDBDisk(n)
            /\ partitions' = MapSet(partitions, n, Len(handles) + 1)
            /\ last' = Returned("openPartition", n, "ok", Len(handles) + 1)
    /\ UNCHANGED <<env, data, readerVars, tasks, shut, allocVars, now, mapVars>>

\* ------------------------------- StoreManager without registry: openOrCreatePartition
\* The build in dist/ keeps no registry: createPartition and openPartition
\* test doesExist(name) and return store.openDB({...options, name}).
\* openOrCreatePartition that goes straight to createPartition.
storeOpenThrowsAlways(n) == TRUE

\* openPartition throws "does not exist".
storeOpenThrows(n) == ~doesExist(n)

\* createPartition throws "already exists".
storeCreateThrows(n) == doesExist(n)

\* try { openPartition } catch { createPartition }
openOrCreatePartition(n, o) ==
    /\ CanCall
    /\ IF storeOpenThrows(n) /\ storeCreateThrows(n)
       THEN /\ last' = Returned("openOrCreatePartition", n, "AlreadyExists", NoHandle)
            /\ UNCHANGED <<disk, handles>>
       ELSE /\ Len(handles) < MaxHandles
            /\ handles' = OpenDBHandles(handles, n, IF storeOpenThrows(n) THEN "create" ELSE "open")
            /\ disk' = OpenDBDisk(n)
            /\ last' = Returned("openOrCreatePartition", n, "ok", Len(handles) + 1)
    /\ UNCHANGED <<env, data, partitions, readerVars, tasks, shut, allocVars, now, mapVars>>

\* A caller asks hasPartition(name).
callHasPartition(n) ==
    /\ CanCall
    /\ last' = Returned("hasPartition", n, IF hasPartition(n) THEN "true" ELSE "false", NoHandle)
    /\ UNCHANGED <<env, disk, data, handles, partitions, readerVars, tasks, shut, allocVars, now, mapVars>>

\* ---------------------------------------------------------- engine calls in flight
\* An asynchronous engine call: who awaits it, which call, on which handle.
\* st is "pending" until the engine has carried it out ("ok"); a call that
\* fails changes nothing in the engine, so its awaiter resumes from "pending".
Task(owner, call, n, h) ==
    [owner |-> owner, call |-> call, name |-> n, h |-> h, st |-> "pending"]

\* The same call is not issued twice at the same time.
CanIssue(ts, t) == Cardinality(ts) < MaxTasks /\ \A u \in ts : [u EXCEPT !.st = "pending"] # t

\* ------------------------------------------------- StoreManager: closePartition
\* Up to the await: throws when the name is not tracked, else calls
\* partition.database.close().
\* closePartition without the registry check.
closeThrowsNever(n) == FALSE

closeThrows(n) == n \notin Tracked

\* closePartition that calls drop() on the partition's database.
closeCallDrops == "drop"

\* The engine call closePartition makes: partition.database.close().
closeCall == "close"

closePartitionBegin(n) ==
    /\ CanCall
    /\ IF closeThrows(n)
       THEN /\ last' = Returned("closePartition", n, "NotFound", NoHandle)
            /\ UNCHANGED tasks
       ELSE /\ CanIssue(tasks, Task("closePartition", closeCall, n, MapGet(partitions, n)))
            /\ tasks' = tasks \cup {Task("closePartition", closeCall, n, MapGet(partitions, n))}
            /\ UNCHANGED last
    /\ UNCHANGED <<env, disk, data, handles, partitions, readerVars, shut, allocVars, now, mapVars>>

\* What closePartition reports once the close has settled: the catch block
\* rethrows a failure as "Failed to close partition ...".
closeResult(t) == IF t.st = "ok" THEN "ok" ELSE "CloseFailed"

\* closePartition that forgets the partition only when the close succeeded.
closeFinallyOnSuccess(t) == IF t.st = "ok" THEN MapDelete(partitions, t.name) ELSE partitions

\* The registry after closePartition's finally block.
closeFinally(t) == MapDelete(partitions, t.name)

\* After the await (the close carried out, or failed).
closePartitionEnd(t) ==
    /\ last = Idle
    /\ t.owner = "closePartition"
    /\ partitions' = closeFinally(t)
    /\ tasks' = tasks \ {t}
    /\ last' = Returned("closePartition", t.name, closeResult(t), t.h)
    /\ UNCHANGED <<env, disk, data, handles, readerVars, shut, allocVars, now, mapVars>>

\* -------------------------------------------------- StoreManager: dropPartition
\* dropPartition(partitionName) declares no confirm parameter: a second
\* argument is not read.  Up to the await: throws when the name is not
\* tracked, else calls partition.database.drop().
dropThrows(n, confirm) == IF n \notin Tracked THEN "NotFound" ELSE "ok"

dropPartitionBegin(n, confirm) ==
    /\ CanCall
    /\ IF dropThrows(n, confirm) # "ok"
       THEN /\ last' = Returned("dropPartition", n, dropThrows(n, confirm), NoHandle)
            /\ UNCHANGED tasks
       ELSE /\ CanIssue(tasks, Task("dropPartition", "drop", n, MapGet(partitions, n)))
            /\ tasks' = tasks \cup {Task("dropPartition", "drop", n, MapGet(partitions, n))}
            /\ UNCHANGED last
    /\ UNCHANGED <<env, disk, data, handles, partitions, readerVars, shut, allocVars, now, mapVars>>

dropResult(t) == IF t.st = "ok" THEN "ok" ELSE "DropFailed"

\* dropPartition that keeps the registry entry.
dropFinallyKeeps(t) == partitions

\* The registry after dropPartition's finally block.
dropFinally(t) == MapDelete(partitions, t.name)

\* After the await (the drop carried out, or failed).
dropPartitionEnd(t) ==
    /\ last = Idle
    /\ t.owner = "dropPartition"
    /\ partitions' = dropFinally(t)
    /\ tasks' = tasks \ {t}
    /\ last' = Returned("dropPartition", t.name, dropResult(t), t.h)
    /\ UNCHANGED <<env, disk, data, handles, readerVars, shut, allocVars, now, mapVars>>

\* ------------------------------------------------------- StoreManager: shutdown
\* The head of the loop over this.partitions.values(), on registry reg with
\* the other calls in flight rest: the next tracked partition is closed,
\* and after the last one the root database is.  (The Map iterator is live:
\* it yields every entry present when it gets there, in insertion order;
\* the model takes the entries in any order.)
ShutdownNext(reg, rest) ==
    IF DOMAIN reg # {}
    THEN /\ \E n \in DOMAIN reg : tasks' = rest \cup {Task("shutdown", "close", n, reg[n])}
         /\ shut' = "closing"
    ELSE /\ tasks' = rest \cup {Task("shutdown", "envclose", META, NoHandle)}
         /\ shut' = "envclose"

\* isRunning(): this.timer !== null
isRunning == timer

\* stop() that forgets the timer without clearing it.
stopClearsNothing == intervals

\* The scheduled intervals after stop(): clearInterval(this.timer) when the
\* timer is set.
stopClears == IF timer THEN intervals - 1 ELSE intervals

\* Whether the timer is set after: if (isRunning()) stop().
StopTimer == FALSE

shutdownBegin ==
    /\ CanCall /\ shut = "idle"
    /\ Cardinality(tasks) < MaxTasks
    /\ timer' = StopTimer
    /\ intervals' = stopClears
    /\ UNCHANGED <<rcm, checks, periodicMs>>
    /\ ShutdownNext(partitions, tasks)
    /\ UNCHANGED <<env, disk, data, handles, partitions, allocVars, now, mapVars, last>>

\* shutdown that forgets a partition only when its close succeeded.
shutdownFinallyOnSuccess(t) == IF t.st = "ok" THEN MapDelete(partitions, t.name) ELSE partitions

\* The registry after the finally block of the loop body.
shutdownFinally(t) == MapDelete(partitions, t.name)

\* A partition's close has settled (a failure goes to onCloseError and is
\* ignored): the finally block removes the entry, the loop goes on.
shutdownResume(t) ==
    /\ last = Idle
    /\ t.owner = "shutdown" /\ t.call = "close"
    /\ partitions' = shutdownFinally(t)
    /\ ShutdownNext(partitions', tasks \ {t})
    /\ UNCHANGED <<env, disk, data, handles, readerVars, allocVars, now, mapVars, last>>

\* The root database's close has settled: shutdown() returns or rejects.
shutdownEnd(t) ==
    /\ last = Idle
    /\ t.owner = "shutdown" /\ t.call = "envclose"
    /\ shut' = "done"
    /\ tasks' = tasks \ {t}
    /\ last' = Returned("shutdown", META, IF t.st = "ok" THEN "ok" ELSE "EnvCloseFailed", NoHandle)
    /\ UNCHANGED <<env, disk, data, handles, partitions, readerVars, allocVars, now, mapVars>>

\* ------------------------------------------------------------- the engine
\* A call the engine has carried out stays in flight until its awaiter
\* runs; a call nobody awaits (the allocator's drop) is gone at once.
Settled(t) ==
    IF t.owner = "prune" THEN tasks \ {t} ELSE (tasks \ {t}) \cup {[t EXCEPT !.st = "ok"]}

\* Database.close() carried out: the handle is closed.
engineClose(t) ==
    /\ last = Idle /\ env = "open"
    /\ t.st = "pending" /\ t.call = "close" /\ Live(t.h)
    /\ handles' = [handles EXCEPT ![t.h].st = "closed"]
    /\ tasks' = Settled(t)
    /\ UNCHANGED <<env, disk, data, partitions, readerVars, shut, allocVars, now, mapVars, last>>

\* Database.drop() carried out: the sub-database and its entries are gone
\* from the root database, and every open handle of it is the handle of a
\* dropped database.
engineDrop(t) ==
    /\ last = Idle /\ env = "open"
    /\ t.st = "pending" /\ t.call = "drop" /\ Live(t.h)
    /\ disk' = disk \ {t.name}
    /\ data' = [data EXCEPT ![t.name] = EmptyDb]
    /\ handles' = [h \in 1..Len(handles) |->
                     IF handles[h].name = t.name /\ handles[h].st = "open"
                     THEN [handles[h] EXCEPT !.st = "dropped"] ELSE handles[h]]
    /\ tasks' = Settled(t)
    /\ UNCHANGED <<env, partitions, readerVars, shut, allocVars, now, mapVars, last>>

\* RootDatabase.close() carried out: the environment and every open handle
\* of it are closed.
engineEnvClose(t) ==
    /\ last = Idle /\ env = "open"
    /\ t.st = "pending" /\ t.call = "envclose"
    /\ env' = "closed"
    /\ handles' = [h \in 1..Len(handles) |->
                     IF handles[h].st = "open"
                     THEN [handles[h] EXCEPT !.st = "closed"] ELSE handles[h]]
    /\ tasks' = Settled(t)
    /\ UNCHANGED <<disk, data, partitions, readerVars, shut, allocVars, now, mapVars, last>>

\* --------------------------------------------------- PartitionManager: entries
\* get(key) through a handle.
get(h, k) == data[handles[h].name][k]

\* has(key) through a handle: database.doesExist(key).
has(h, k) == data[handles[h].name][k] # Absent

\* The entries after database.putSync(key, value).
putSyncWrites(h, k, v) == [data EXCEPT ![handles[h].name][k] = v]

\* The entries after database.removeSync(key).
removeSyncWrites(h, k) == [data EXCEPT ![handles[h].name][k] = Absent]

\* removeSync that reports a deletion whether or not there was an entry.
removeSyncReturnsTrue(h, k) == TRUE

\* What removeSync(key) returns: whether an entry was deleted.
removeSyncReturns(h, k) == has(h, k)

\* putSync(key, value) through an open handle.
putSync(h, k, v) ==
    /\ CanCall /\ Live(h)
    /\ data' = putSyncWrites(h, k, v)
    /\ UNCHANGED <<env, disk, handles, partitions, readerVars, tasks, shut, allocVars, now, mapVars, last>>

\* removeSync(key) through an open handle.
removeSync(h, k) ==
    /\ CanCall /\ Live(h)
    /\ data' = removeSyncWrites(h, k)
    /\ UNCHANGED <<env, disk, handles, partitions, readerVars, tasks, shut, allocVars, now, mapVars, last>>

\* ------------------------------------------------ DayPartitionManager: pruning
\* The names the prune pass drops: listed, of the form <prefix>_<8 digits>,
\* with a day suffix below the cutoff (8-digit strings compare as the
\* numbers they spell).
\* The cutoff a whole retention window back.
pruneCutoffFullWindow(maxDays) ==
    daySuffix(now - maxDays * SECONDS_IN_DAY)

\* A cutoff one day past the current day.
pruneCutoffNextDay(maxDays) ==
    daySuffix(now + SECONDS_IN_DAY)

pruneCutoff(maxDays) ==
    daySuffix(now - (maxDays - 1) * SECONDS_IN_DAY)

\* Names as the strings the code sees, a string being the sequence of its
\* characters.
Chars(p) ==
    CASE p = "events" -> <<"e", "v", "e", "n", "t", "s">>
      [] p = "users" -> <<"u", "s", "e", "r", "s">>
      [] p = "_metadata" -> <<"_", "m", "e", "t", "a", "d", "a", "t", "a">>

Digits == {"0", "1", "2", "3", "4", "5", "6", "7", "8", "9"}
DigitChar(i) == <<"0", "1", "2", "3", "4", "5", "6", "7", "8", "9">>[i + 1]
Ord(c) == CHOOSE i \in 0..9 : DigitChar(i) = c

\* The decimal digits of a day suffix (`${y}${m}${day}`).
RECURSIVE DayChars(_)
DayChars(d) == IF d < 10 THEN <<DigitChar(d)>> ELSE DayChars(d \div 10) \o <<DigitChar(d % 10)>>

\* The string a partition name stands for: the prefix alone, or
\* `${prefix}_${daySuffix}`.
NameChars(n) == Chars(n.pfx) \o (IF n.sfx = 0 THEN <<>> ELSE <<"_">> \o DayChars(n.sfx))

\* The characters /[.*+?^${}()|[\]\\]/ matches.
RegexMeta == {".", "*", "+", "?", "^", "$", "{", "}", "(", ")", "|", "[", "]", "\\"}

\* A prefix put into the pattern as it is.
escapeNothing(prefix) == prefix

\* partitionPrefix.replace(/[.*+?^${}()|[\]\\]/g, '\\$&'): a backslash before
\* every such character.
RECURSIVE escapeRegExp(_)
escapeRegExp(prefix) ==
    IF prefix = <<>> THEN <<>>
    ELSE (IF Head(prefix) \in RegexMeta THEN <<"\\", Head(prefix)>> ELSE <<Head(prefix)>>)
         \o escapeRegExp(Tail(prefix))

\* The pattern source read as a regular expression: an escaped character
\* and an ordinary one stand for themselves, a bare "." for any character
\* (the one metacharacter the prefixes of a run contain).
RECURSIVE reTokens(_)
reTokens(src) ==
    IF src = <<>> THEN <<>>
    ELSE IF Head(src) = "\\" /\ Len(src) >= 2
    THEN <<[any |-> FALSE, c |-> src[2]]>> \o reTokens(Tail(Tail(src)))
    ELSE <<[any |-> Head(src) = ".", c |-> Head(src)]>> \o reTokens(Tail(src))

\* re.exec(name) fails (null).
NoMatch == <<>>

\* new RegExp(`^${escapedPrefix}_(\\d{8})$`).exec(name): the eight digits of
\* the group, or NoMatch.
reExec(prefix, name) ==
    LET toks == reTokens(escapeRegExp(prefix))
        n == Len(toks)
    IN  IF /\ Len(name) = n + 9
           /\ \A i \in 1..n : toks[i].any \/ toks[i].c = name[i]
           /\ name[n + 1] = "_"
           /\ \A i \in (n + 2)..(n + 9) : name[i] \in Digits
        THEN SubSeq(name, n + 2, n + 9)
        ELSE NoMatch

\* a < b for strings of digits, as JavaScript compares strings.
RECURSIVE strLess(_, _)
strLess(a, b) ==
    IF b = <<>> THEN FALSE
    ELSE IF a = <<>> THEN TRUE
    ELSE IF Head(a) = Head(b) THEN strLess(Tail(a), Tail(b))
    ELSE Ord(Head(a)) < Ord(Head(b))

\* The loop's test: not (!m || m[1] >= cutoff).
pruneSelects(prefix, name, cutoff) ==
    LET m == reExec(prefix, name)
    IN  m # NoMatch /\ ~(~strLess(m, cutoff))

pruneMatches(n) == reExec(Chars(PartitionPrefix), NameChars(n)) # NoMatch

pruneExpired(maxDays) ==
    {n \in listPartitions :
        pruneSelects(Chars(PartitionPrefix), NameChars(n), DayChars(pruneCutoff(maxDays)))}

\* The names in key order, as getKeys() yields them.
RECURSIVE KeyOrder(_)
KeyOrder(S) ==
    IF S = {} THEN <<>>
    ELSE LET n == CHOOSE x \in S : \A y \in S : x.sfx <= y.sfx
         IN  <<n>> \o KeyOrder(S \ {n})

\* The loop body for the names in seq, on st = [handles, partitions, tasks,
\* cache]: store.openPartition(name, options) returns the tracked handle or
\* opens and tracks one, .drop() is called on it and its promise is not
\* awaited, and the finally block deletes the cache entry.
RECURSIVE pruneLoop(_, _)
pruneLoop(seq, st) ==
    IF seq = <<>> THEN st
    ELSE LET n == Head(seq)
             fresh == n \notin DOMAIN st.partitions
             h == IF fresh THEN Len(st.handles) + 1 ELSE st.partitions[n]
         IN  pruneLoop(Tail(seq),
               [handles |-> IF fresh THEN OpenDBHandles(st.handles, n, "open") ELSE st.handles,
                partitions |-> MapSet(st.partitions, n, h),
                tasks |-> st.tasks \cup {Task("prune", "drop", n, h)},
                cache |-> MapDelete(st.cache, n)])

\* pruneOldPartitions() with retention maxDays, from st.
\* A pass that only tests the flag.
pruneSkipsFlagOnly(maxDays) == isPruning

\* if (this.isPruning || this.options.maxDaysRetention <= 0) return;
pruneSkips(maxDays) == isPruning \/ maxDays <= 0

pruneOldPartitions(maxDays, st) ==
    IF pruneSkips(maxDays) THEN st
    ELSE pruneLoop(KeyOrder(pruneExpired(maxDays)), st)

\* A pass that leaves the flag set when it threw.
pruneReleasesOnSuccessOnly(failed) == failed

\* finally { this.isPruning = false }: the flag after a pass, whether or not
\* the pass threw.
pruneReleases(failed) == FALSE

\* isPruning after pruneOldPartitions() with retention maxDays.
pruneFlagAfter(maxDays, failed) ==
    IF pruneSkips(maxDays) THEN isPruning ELSE pruneReleases(failed)

PruneFits(st) == Len(st.handles) <= MaxHandles /\ Cardinality(st.tasks) <= MaxTasks

\* The drop() a prune pass called fails: its promise, which the pass neither
\* awaits nor attaches a handler to, rejects outside the pass's try/catch.
pruneDropFails(t) ==
    /\ last = Idle
    /\ t.owner = "prune" /\ t.st = "pending"
    /\ tasks' = tasks \ {t}
    /\ unhandled' = TRUE
    /\ UNCHANGED <<env, disk, data, handles, partitions, readerVars, shut, alloc,
                   maxDaysRetention, cache, isPruning, now, mapVars, last>>

\* -------------------------------------------- DayPartitionManager: constructor
\* Number.isInteger(r)
isInteger(r) == r.num % r.den = 0

\* The constructor's check without Number.isInteger.
retentionInvalidSignOnly(r) ==
    r.num # RetentionDisabled * r.den /\ r.num <= 0

\* r !== -1 and (!Number.isInteger(r) || r <= 0): the constructor throws.
retentionInvalid(r) ==
    r.num # RetentionDisabled * r.den /\ (~isInteger(r) \/ r.num <= 0)

\* What the constructor hands to its caller, kept with its argument.
Constructed(r, res) ==
    [op |-> "newDayPartitionManager", name |-> META, res |-> res, h |-> NoHandle, arg |-> r]

newDayPartitionManager(r) ==
    /\ CanCall /\ alloc = "none"
    /\ IF retentionInvalid(r)
       THEN /\ last' = Constructed(r, "InvalidRetention")
            /\ UNCHANGED <<handles, partitions, tasks, allocVars>>
       ELSE LET st0 == [handles |-> handles, partitions |-> partitions,
                        tasks |-> tasks, cache |-> cache]
                prunes == r.num \div r.den # RetentionDisabled
                st == IF prunes THEN pruneOldPartitions(r.num \div r.den, st0) ELSE st0
            IN  /\ PruneFits(st)
                /\ handles' = st.handles
                /\ partitions' = st.partitions
                /\ tasks' = st.tasks
                /\ cache' = st.cache
                /\ alloc' = "ready"
                /\ maxDaysRetention' = r.num \div r.den
                /\ isPruning' = IF prunes THEN pruneFlagAfter(r.num \div r.den, FALSE)
                                ELSE isPruning
                /\ UNCHANGED unhandled
                /\ last' = Constructed(r, "ok")
    /\ UNCHANGED <<env, disk, data, readerVars, shut, now, mapVars>>

\* ------------------------------------- DayPartitionManager: dayRange, partitionName
\* A caller asks partitionName(tsSec); the result is kept with the argument
\* and with the call before it when that was a partitionName call too.
callPartitionName(tsSec) ==
    /\ env = "open"
    /\ last' = [op |-> "partitionName", name |-> partitionName(tsSec), res |-> "ok",
                h |-> NoHandle, ts |-> tsSec,
                prev |-> IF last.op = "partitionName"
                         THEN <<[ts |-> last.ts, name |-> last.name]>> ELSE <<>>]
    /\ UNCHANGED <<env, disk, data, handles, partitions, readerVars, tasks, shut, allocVars, now, mapVars>>

\* A caller asks dayRange(tsSec).
callDayRange(tsSec) ==
    /\ env = "open"
    /\ last' = [op |-> "dayRange", name |-> partitionName(tsSec), res |-> "ok",
                h |-> NoHandle, ts |-> tsSec, range |-> dayRange(tsSec)]
    /\ UNCHANGED <<env, disk, data, handles, partitions, readerVars, tasks, shut, allocVars, now, mapVars>>

\* ------------------------------------------- DayPartitionManager: getPartition
\* assertInRetention that lets the day maxDaysRetention days back through.
assertInRetentionOffByOne(tsSec) ==
    LET nowDay == now \div SECONDS_IN_DAY
        tsDay == tsSec \div SECONDS_IN_DAY
    IN  IF maxDaysRetention = RetentionDisabled THEN "ok"
        ELSE IF tsDay > nowDay THEN "FutureTimestamp"
        ELSE IF nowDay - tsDay > maxDaysRetention THEN "OutOfRetention"
        ELSE "ok"

\* assertInRetention(tsSec): "ok" or the error it throws.
assertInRetention(tsSec) ==
    LET nowDay == now \div SECONDS_IN_DAY
        tsDay == tsSec \div SECONDS_IN_DAY
    IN  IF maxDaysRetention = RetentionDisabled THEN "ok"
        ELSE IF tsDay > nowDay THEN "FutureTimestamp"
        ELSE IF nowDay - tsDay >= maxDaysRetention THEN "OutOfRetention"
        ELSE "ok"

\* getPartition that looks in its cache before it validates the timestamp.
getValidatesUncachedOnly(tsSec) ==
    IF partitionName(tsSec) \in DOMAIN cache THEN "ok" ELSE assertInRetention(tsSec)

\* getPartition's first statement: this.assertInRetention(tsSec).
getValidates(tsSec) == assertInRetention(tsSec)

\* What getPartition(tsSec, create) hands to its caller, kept with its
\* arguments and with the place the answer came from ("cache", "registry",
\* "open", "create", or "none").
Got(tsSec, create, res, h, from) ==
    [op |-> "getPartition", name |-> partitionName(tsSec), res |-> res, h |-> h,
     ts |-> tsSec, create |-> create, from |-> from]

\* getPartition that does not keep the partition it returns.
getCachesNothing(c, n, h) == c

\* this.partitions.set(name, partition)
getCaches(c, n, h) == MapSet(c, n, h)

\* Callers create only buckets that are among Names.
getPartition(tsSec, create) ==
    LET name == partitionName(tsSec)
        v == getValidates(tsSec)
        h == Len(handles) + 1
        creates == /\ v = "ok" /\ name \notin DOMAIN cache /\ name \notin Tracked
                   /\ ~doesExist(name) /\ create
    IN
    /\ CanCall /\ alloc = "ready"
    /\ v # "ok" \/ name \in Names \/ ~create
    /\ IF v # "ok"
       THEN /\ last' = Got(tsSec, create, v, NoHandle, "none")
            /\ UNCHANGED <<disk, handles, partitions, tasks, cache>>
       ELSE IF name \in DOMAIN cache
       THEN /\ last' = Got(tsSec, create, "ok", cache[name], "cache")
            /\ UNCHANGED <<disk, handles, partitions, tasks, cache>>
       ELSE IF name \in Tracked
       THEN /\ cache' = getCaches(cache, name, partitions[name])
            /\ last' = Got(tsSec, create, "ok", partitions[name], "registry")
            /\ UNCHANGED <<disk, handles, partitions, tasks>>
       ELSE IF doesExist(name)
       THEN /\ Len(handles) < MaxHandles
            /\ handles' = OpenDBHandles(handles, name, "open")
            /\ partitions' = MapSet(partitions, name, h)
            /\ cache' = getCaches(cache, name, h)
            /\ last' = Got(tsSec, create, "ok", h, "open")
            /\ UNCHANGED <<disk, tasks>>
       ELSE IF create
       THEN LET st == pruneOldPartitions(maxDaysRetention,
                        [handles |-> OpenDBHandles(handles, name, "create"),
                         partitions |-> MapSet(partitions, name, h),
                         tasks |-> tasks, cache |-> cache])
            IN  /\ Len(handles) < MaxHandles
                /\ PruneFits(st)
                /\ disk' = OpenDBDisk(name)
                /\ handles' = st.handles
                /\ partitions' = st.partitions
                /\ tasks' = st.tasks
                /\ cache' = getCaches(st.cache, name, h)
                /\ last' = Got(tsSec, create, "ok", h, "create")
       ELSE /\ last' = Got(tsSec, create, "absent", NoHandle, "none")
            /\ UNCHANGED <<disk, handles, partitions, tasks, cache>>
    /\ isPruning' = IF creates THEN pruneFlagAfter(maxDaysRetention, FALSE) ELSE isPruning
    /\ UNCHANGED <<env, data, readerVars, shut, alloc, maxDaysRetention, unhandled, now, mapVars>>

\* getPartition(tsSec, true) of an absent bucket when store.listPartitions()
\* throws in the prune pass: the bucket is created and tracked, the pass's
\* finally block runs, and the error leaves getPartition before the bucket
\* is cached.
getPartitionListFails(tsSec) ==
    LET name == partitionName(tsSec)
        h == Len(handles) + 1
    IN
    /\ CanCall /\ alloc = "ready"
    /\ getValidates(tsSec) = "ok" /\ name \in Names
    /\ name \notin DOMAIN cache /\ name \notin Tracked /\ ~doesExist(name)
    /\ ~pruneSkips(maxDaysRetention)
    /\ Len(handles) < MaxHandles
    /\ disk' = OpenDBDisk(name)
    /\ handles' = OpenDBHandles(handles, name, "create")
    /\ partitions' = MapSet(partitions, name, h)
    /\ isPruning' = pruneFlagAfter(maxDaysRetention, TRUE)
    /\ last' = Got(tsSec, TRUE, "ListFailed", NoHandle, "none")
    /\ UNCHANGED <<env, data, readerVars, tasks, shut, alloc, maxDaysRetention, cache, unhandled,
                   now, mapVars>>

\* ------------------------------------- PartitionManager: callers of one handle
\* Keys and values of callers that read back what they wrote.
EntryKeys == {"a", "b"}
EntryVals == {"v", "w"}

\* The state after the StoreManager's constructor, the sub-databases being
\* keyed by EntryKeys.
EntriesInit ==
    /\ env = "open"
    /\ disk = {META}
    /\ data = [n \in Names |-> [k \in EntryKeys |-> Absent]]
    /\ handles = <<[name |-> META, st |-> "open", via |-> "new"]>>
    /\ partitions = EmptyMap
    /\ timer = TRUE
    /\ intervals = 1
    /\ rcm = "made"
    /\ checks = 1
    /\ periodicMs = StorePeriodicMs
    /\ readOnly = FALSE
    /\ txn = NoTxn
    /\ tasks = {}
    /\ shut = "idle"
    /\ alloc = "none"
    /\ maxDaysRetention = RetentionDisabled
    /\ cache = EmptyMap
    /\ isPruning = FALSE
    /\ unhandled = FALSE
    /\ now \in NowInputs
    /\ last = Idle

\* What a call on a handle hands back, kept with its arguments (val is
\* Absent when the call takes no value).
EntryCall(op, h, k, v, res) ==
    [op |-> op, name |-> handles[h].name, res |-> res, h |-> h, key |-> k, val |-> v]

Bool(b) == IF b THEN "true" ELSE "false"

\* A caller's putSync(key, value), get(key), has(key), removeSync(key)
\* through an open handle.
callPutSync(h, k, v) ==
    /\ CanCall /\ Live(h)
    /\ data' = putSyncWrites(h, k, v)
    /\ last' = EntryCall("putSync", h, k, v, "ok")
    /\ UNCHANGED <<env, disk, handles, partitions, readerVars, tasks, shut, allocVars, now, mapVars>>

callGet(h, k) ==
    /\ CanCall /\ Live(h)
    /\ last' = EntryCall("get", h, k, Absent, get(h, k))
    /\ UNCHANGED <<env, disk, data, handles, partitions, readerVars, tasks, shut, allocVars, now, mapVars>>

callHas(h, k) ==
    /\ CanCall /\ Live(h)
    /\ last' = EntryCall("has", h, k, Absent, Bool(has(h, k)))
    /\ UNCHANGED <<env, disk, data, handles, partitions, readerVars, tasks, shut, allocVars, now, mapVars>>

callRemoveSync(h, k) ==
    /\ CanCall /\ Live(h)
    /\ data' = removeSyncWrites(h, k)
    /\ last' = EntryCall("removeSync", h, k, Absent, Bool(removeSyncReturns(h, k)))
    /\ UNCHANGED <<env, disk, handles, partitions, readerVars, tasks, shut, allocVars, now, mapVars>>

\* The key lists callers pass to getMany (repeated keys included).
KeyLists == UNION {[1..n -> EntryKeys] : n \in 0..MaxKeys}

RECURSIVE PresentOnly(_, _)
PresentOnly(h, keys) ==
    IF keys = <<>> THEN <<>>
    ELSE (IF has(h, Head(keys)) THEN <<get(h, Head(keys))>> ELSE <<>>)
         \o PresentOnly(h, Tail(keys))

\* getMany that leaves out the keys that have no entry.
getManyPresentOnly(h, keys) == PresentOnly(h, keys)

\* What the promise of getMany(keys) resolves to: database.getMany(keys),
\* the value of each key (undefined when it has none), read when it resolves.
getMany(h, keys) == [i \in 1..Len(keys) |-> get(h, keys[i])]

callGetMany(h, keys) ==
    /\ CanCall /\ Live(h)
    /\ last' = [op |-> "getMany", name |-> handles[h].name, res |-> "ok", h |-> h,
                keys |-> keys, vals |-> getMany(h, keys)]
    /\ UNCHANGED <<env, disk, data, handles, partitions, readerVars, tasks, shut, allocVars, now, mapVars>>


\* ------------------------------------------------- StoreManager: transactions
\* The calls a transaction callback makes on one handle, in call order:
\* putSync(k, v), removeSync(k), and the read-then-write
\* if (get(k) === undefined) putSync(k, v) else removeSync(k).
Put(k, v) == [op |-> "put", key |-> k, val |-> v]
Remove(k) == [op |-> "remove", key |-> k, val |-> Absent]
Toggle(k, v) == [op |-> "toggle", key |-> k, val |-> v]

\* The callbacks callers pass; each returns what it reads under ReturnKey
\* after its writes.
TxnFns ==
    { <<Put("a", "v"), Put("b", "w")>>,
      <<Put("a", "v"), Put("a", "w")>>,
      <<Put("b", "w"), Remove("b"), Put("a", "w")>>,
      <<Toggle("a", "v")>> }

ReturnKey == "a"

\* One call of a callback on the entries db of its sub-database.
fnStep(db, c) ==
    CASE c.op = "put" -> [db EXCEPT ![c.key] = c.val]
      [] c.op = "remove" -> [db EXCEPT ![c.key] = Absent]
      [] c.op = "toggle" -> IF db[c.key] = Absent
                            THEN [db EXCEPT ![c.key] = c.val]
                            ELSE [db EXCEPT ![c.key] = Absent]

\* The entries after the callback ran once from db.
RECURSIVE runFn(_, _)
runFn(db, fn) == IF fn = <<>> THEN db ELSE runFn(fnStep(db, Head(fn)), Tail(fn))

\* A transaction that runs its callback twice.
transactionRunsTwice(db, fn) == runFn(runFn(db, fn), fn)

\* database.transaction(fn) and database.transactionSync(fn): the engine runs
\* fn once inside one write transaction and commits its writes together.
transactionRuns(db, fn) == runFn(db, fn)

\* What a transaction hands back, kept with its callback.
TxnCall(op, h, fn, res) ==
    [op |-> op, name |-> handles[h].name, res |-> res, h |-> h, fn |-> fn]

\* transactionSync(action), the callback writing through handle h.
transactionSync(h, fn) ==
    /\ CanCall /\ Live(h)
    /\ data' = [data EXCEPT ![handles[h].name] = transactionRuns(@, fn)]
    /\ last' = TxnCall("transactionSync", h, fn, data'[handles[h].name][ReturnKey])
    /\ UNCHANGED <<env, disk, handles, partitions, readerVars, tasks, shut, allocVars, now, mapVars>>

\* transactionAsync(action) up to the promise it returns: the engine queues
\* the callback.
transactionAsyncBegin(h, fn) ==
    /\ CanCall /\ Live(h)
    /\ txn = NoTxn
    /\ txn' = [st |-> "queued", h |-> h, fn |-> fn, res |-> Absent]
    /\ UNCHANGED <<env, disk, data, handles, partitions, readerVars, tasks, shut, allocVars, now,
                   readOnly, last>>

\* The engine runs the queued callback and commits.
engineCommit ==
    /\ last = Idle /\ env = "open"
    /\ txn.st = "queued"
    /\ data' = [data EXCEPT ![handles[txn.h].name] = transactionRuns(@, txn.fn)]
    /\ txn' = [txn EXCEPT !.st = "committed", !.res = data'[handles[txn.h].name][ReturnKey]]
    /\ UNCHANGED <<env, disk, handles, partitions, readerVars, tasks, shut, allocVars, now,
                   readOnly, last>>

\* The promise of transactionAsync settles with the callback's result.
transactionAsyncEnd ==
    /\ last = Idle
    /\ txn.st = "committed"
    /\ txn' = NoTxn
    /\ last' = TxnCall("transaction", txn.h, txn.fn, txn.res)
    /\ UNCHANGED <<env, disk, data, handles, partitions, readerVars, tasks, shut, allocVars, now,
                   readOnly>>

\* Entries written directly, and transactions on them.
TxnNext ==
    \/ \E o \in Options : createPartition(PlainName("users"), o)
    \/ \E h \in 1..MaxHandles, k \in EntryKeys, v \in EntryVals : callPutSync(h, k, v)
    \/ \E h \in 1..MaxHandles, k \in EntryKeys : callGet(h, k)
    \/ \E h \in 1..MaxHandles, fn \in TxnFns : transactionSync(h, fn)
    \/ \E h \in 1..MaxHandles, fn \in TxnFns : transactionAsyncBegin(h, fn)
    \/ engineCommit
    \/ transactionAsyncEnd
    \/ callReturns

SpecTxn == EntriesInit /\ [][TxnNext]_vars

\* -------------------------------------------------------- ReaderCheckManager
\* Outcomes of database.readerCheck(): it returns, or it throws.
ReaderCheckOutcomes == {"ok", "throws"}

\* database.readerCheck() now: on a closed environment it throws.
readerCheck == IF env = "open" THEN ReaderCheckOutcomes ELSE {"throws"}

\* periodicMs values callers construct a ReaderCheckManager with (15 minutes
\* is the StoreManager's).
PeriodicInputs == {-1, 0, StorePeriodicMs}

\* What a call on the ReaderCheckManager, or a firing of its interval, hands
\* back: the result, whether the timer was set before, and what the engine's
\* readerCheck() did ("none" when it was not invoked).
ReaderCall(op, res, e) ==
    [op |-> op, name |-> META, res |-> res, h |-> NoHandle, was |-> timer, engine |-> e]

\* check() that lets the engine's error through.
checkRethrows(e) == e

\* check(): try { this.database.readerCheck() } catch {}: what the caller sees.
check(e) == "ok"

\* start() that schedules whether or not a timer is set.
startSkipsNever == FALSE

\* start(): if (this.timer) return
startSkips == timer

\* The constructor starts on any periodicMs that is not negative.
constructorStartsNonNegative(ms) == ms >= 0

\* if (options.periodicMs > 0) this.start()
constructorStarts(ms) == ms > 0

\* The state of a ReaderCheckManager before its constructor has run, on an
\* open root database.
ReaderInit ==
    /\ env = "open"
    /\ disk = {}
    /\ data = [n \in Names |-> EmptyDb]
    /\ handles = <<>>
    /\ partitions = EmptyMap
    /\ timer = FALSE
    /\ intervals = 0
    /\ rcm = "none"
    /\ checks = 0
    /\ periodicMs = 0
    /\ readOnly = FALSE
    /\ txn = NoTxn
    /\ tasks = {}
    /\ shut = "idle"
    /\ alloc = "none"
    /\ maxDaysRetention = RetentionDisabled
    /\ cache = EmptyMap
    /\ isPruning = FALSE
    /\ unhandled = FALSE
    /\ now \in NowInputs
    /\ last = Idle

\* new ReaderCheckManager(database, {periodicMs, initialCheck}): check() when
\* initialCheck, then start() when periodicMs > 0.  An error leaving check()
\* leaves the constructor.
newReaderCheckManager(ms, initialCheck, e) ==
    LET res == IF initialCheck THEN check(e) ELSE "ok"
        starts == res = "ok" /\ constructorStarts(ms) /\ ~startSkips
    IN
    /\ CanCall /\ rcm = "none"
    /\ checks' = IF initialCheck THEN checks + 1 ELSE checks
    /\ rcm' = IF res = "ok" THEN "made" ELSE "none"
    /\ periodicMs' = ms
    /\ timer' = (timer \/ starts)
    /\ intervals' = IF starts THEN intervals + 1 ELSE intervals
    /\ last' = [op |-> "newReaderCheckManager", name |-> META, res |-> res, h |-> NoHandle,
                periodicMs |-> ms, initialCheck |-> initialCheck,
                engine |-> IF initialCheck THEN e ELSE "none"]
    /\ UNCHANGED <<env, disk, data, handles, partitions, tasks, shut, allocVars, now, mapVars>>

\* start()
start ==
    /\ last = Idle /\ rcm = "made"
    /\ IF startSkips
       THEN UNCHANGED <<timer, intervals>>
       ELSE /\ intervals < MaxIntervals
            /\ timer' = TRUE
            /\ intervals' = intervals + 1
    /\ last' = ReaderCall("start", "ok", "none")
    /\ UNCHANGED <<env, disk, data, handles, partitions, rcm, checks, periodicMs, tasks, shut, allocVars, now, mapVars>>

\* stop()
stop ==
    /\ last = Idle /\ rcm = "made"
    /\ timer' = FALSE
    /\ intervals' = stopClears
    /\ last' = ReaderCall("stop", "ok", "none")
    /\ UNCHANGED <<env, disk, data, handles, partitions, rcm, checks, periodicMs, tasks, shut, allocVars, now, mapVars>>

\* A caller asks isRunning().
callIsRunning ==
    /\ last = Idle /\ rcm = "made"
    /\ last' = ReaderCall("isRunning", IF isRunning THEN "true" ELSE "false", "none")
    /\ UNCHANGED <<env, disk, data, handles, partitions, readerVars, tasks, shut, allocVars, now, mapVars>>

\* A caller calls check(); the engine's readerCheck() does e.
callCheck(e) ==
    /\ last = Idle /\ rcm = "made"
    /\ checks < MaxChecks
    /\ checks' = checks + 1
    /\ last' = ReaderCall("check", check(e), e)
    /\ UNCHANGED <<env, disk, data, handles, partitions, timer, intervals, rcm, periodicMs, tasks, shut, allocVars, now, mapVars>>

\* A scheduled interval fires: () => { this.check() }.  (An error leaving
\* the callback is an uncaught exception; the interval itself stays.)
tick(e) ==
    /\ last = Idle /\ intervals > 0
    /\ checks < MaxChecks
    /\ checks' = checks + 1
    /\ last' = ReaderCall("tick", check(e), e)
    /\ UNCHANGED <<env, disk, data, handles, partitions, timer, intervals, rcm, periodicMs, tasks, shut, allocVars, now, mapVars>>

\* The owner of the root database closes it: database.close().
ownerCloseBegin ==
    /\ CanCall
    /\ CanIssue(tasks, Task("owner", "envclose", META, NoHandle))
    /\ tasks' = tasks \cup {Task("owner", "envclose", META, NoHandle)}
    /\ UNCHANGED <<env, disk, data, handles, partitions, readerVars, shut, allocVars, now, mapVars, last>>

\* The close has settled.
ownerCloseEnd(t) ==
    /\ last = Idle
    /\ t.owner = "owner"
    /\ tasks' = tasks \ {t}
    /\ last' = Returned("close", META, IF t.st = "ok" THEN "ok" ELSE "EnvCloseFailed", NoHandle)
    /\ UNCHANGED <<env, disk, data, handles, partitions, readerVars, shut, allocVars, now, mapVars>>

\* ------------------------------------------------------------------ LMDBMap
\* options.readOnly as the caller passes it to the constructor, or not at all.
MapOptions == {"unset", "true", "false"}

\* this.options = { ..., readOnly: true, ...options }
readOnlyOption(o) == IF o = "unset" THEN TRUE ELSE o = "true"

\* The map's root database: the handle open() returned to the constructor.
mapDatabase == Len(handles)

\* Before any map is constructed on the path: nothing is open, nothing stored.
MapInit ==
    /\ env = "closed"
    /\ disk = {META}
    /\ data = [n \in Names |-> [k \in EntryKeys |-> Absent]]
    /\ handles = <<>>
    /\ partitions = EmptyMap
    /\ timer = FALSE
    /\ intervals = 0
    /\ rcm = "none"
    /\ checks = 0
    /\ periodicMs = 0
    /\ readOnly = FALSE
    /\ txn = NoTxn
    /\ tasks = {}
    /\ shut = "idle"
    /\ alloc = "none"
    /\ maxDaysRetention = RetentionDisabled
    /\ cache = EmptyMap
    /\ isPruning = FALSE
    /\ unhandled = FALSE
    /\ now \in NowInputs
    /\ last = Idle

\* The map is in use: constructed and close() not called since.
MapOpen == CanCall /\ Live(mapDatabase) /\ tasks = {}

\* What a call on the map hands back, kept with its arguments.
MapCall(op, k, v, res) ==
    [op |-> op, name |-> META, res |-> res, h |-> mapDatabase, key |-> k, val |-> v]

\* new LMDBMap(path, options): merges the options, opens the root database
\* and constructs the reader check ({ periodicMs: 15 * 60_000, initialCheck: true }).
newLMDBMap(o) ==
    /\ last = Idle /\ env = "closed" /\ tasks = {}
    /\ Len(handles) < MaxHandles /\ checks < MaxChecks /\ intervals < MaxIntervals
    /\ env' = "open"
    /\ handles' = Append(handles, [name |-> META, st |-> "open", via |-> "new"])
    /\ readOnly' = readOnlyOption(o)
    /\ rcm' = "made"
    /\ checks' = checks + 1
    /\ timer' = TRUE
    /\ intervals' = intervals + 1
    /\ periodicMs' = StorePeriodicMs
    /\ last' = [op |-> "newLMDBMap", name |-> META, res |-> "ok", h |-> Len(handles) + 1,
                options |-> o]
    /\ UNCHANGED <<disk, data, partitions, tasks, shut, allocVars, now, txn>>

\* close(): readerCheckManager.stop(), then database.close().
mapClose ==
    /\ MapOpen /\ txn = NoTxn
    /\ timer' = StopTimer
    /\ intervals' = stopClears
    /\ tasks' = {Task("owner", "envclose", META, NoHandle)}
    /\ UNCHANGED <<env, disk, data, handles, partitions, rcm, checks, periodicMs, shut, allocVars,
                   now, mapVars, last>>

\* A map whose write calls never refuse.
mapGuardsNever == FALSE

\* if (this.options.readOnly) throw new Error('Cannot perform ... on a read-only database.')
mapGuards == readOnly

ReadOnlyViolation == "ReadOnlyViolation"

\* set(key, value)
mapSet(k, v) ==
    /\ MapOpen
    /\ IF mapGuards
       THEN /\ last' = MapCall("set", k, v, ReadOnlyViolation)
            /\ UNCHANGED data
       ELSE /\ data' = putSyncWrites(mapDatabase, k, v)
            /\ last' = MapCall("set", k, v, "ok")
    /\ UNCHANGED <<env, disk, handles, partitions, readerVars, tasks, shut, allocVars, now, mapVars>>

\* del(key)
mapDel(k) ==
    /\ MapOpen
    /\ IF mapGuards
       THEN /\ last' = MapCall("del", k, Absent, ReadOnlyViolation)
            /\ UNCHANGED data
       ELSE /\ data' = removeSyncWrites(mapDatabase, k)
            /\ last' = MapCall("del", k, Absent, Bool(removeSyncReturns(mapDatabase, k)))
    /\ UNCHANGED <<env, disk, handles, partitions, readerVars, tasks, shut, allocVars, now, mapVars>>

\* clear(confirm): the read-only check first, then the confirmation, then
\* database.clearSync().
mapClear(confirm) ==
    /\ MapOpen
    /\ IF mapGuards
       THEN /\ last' = MapCall("clear", Absent, Bool(confirm), ReadOnlyViolation)
            /\ UNCHANGED data
       ELSE IF ~confirm
       THEN /\ last' = MapCall("clear", Absent, Bool(confirm), "NotConfirmed")
            /\ UNCHANGED data
       ELSE /\ data' = [data EXCEPT ![META] = [k \in EntryKeys |-> Absent]]
            /\ last' = MapCall("clear", Absent, Bool(confirm), "ok")
    /\ UNCHANGED <<env, disk, handles, partitions, readerVars, tasks, shut, allocVars, now, mapVars>>

\* transaction(fn): throws on a read-only map, else database.transaction(fn).
mapTransaction(fn) ==
    /\ MapOpen
    /\ IF mapGuards
       THEN /\ last' = TxnCall("transaction", mapDatabase, fn, ReadOnlyViolation)
            /\ UNCHANGED txn
       ELSE /\ txn = NoTxn
            /\ txn' = [st |-> "queued", h |-> mapDatabase, fn |-> fn, res |-> Absent]
            /\ UNCHANGED last
    /\ UNCHANGED <<env, disk, data, handles, partitions, readerVars, tasks, shut, allocVars, now,
                   readOnly>>

\* get(key), has(key)
mapGet(k) ==
    /\ MapOpen
    /\ last' = MapCall("get", k, Absent, get(mapDatabase, k))
    /\ UNCHANGED <<env, disk, data, handles, partitions, readerVars, tasks, shut, allocVars, now, mapVars>>

mapHas(k) ==
    /\ MapOpen
    /\ last' = MapCall("has", k, Absent, Bool(has(mapDatabase, k)))
    /\ UNCHANGED <<env, disk, data, handles, partitions, readerVars, tasks, shut, allocVars, now, mapVars>>

\* Maps constructed on one path one after the other, each used and closed.
MapNext ==
    \/ \E o \in MapOptions : newLMDBMap(o)
    \/ mapClose
    \/ \E t \in tasks : engineEnvClose(t)
    \/ \E t \in tasks : ownerCloseEnd(t)
    \/ \E k \in EntryKeys, v \in EntryVals : mapSet(k, v)
    \/ \E k \in EntryKeys : mapDel(k)
    \/ \E c \in BOOLEAN : mapClear(c)
    \/ \E fn \in TxnFns : mapTransaction(fn)
    \/ engineCommit
    \/ transactionAsyncEnd
    \/ \E k \in EntryKeys : mapGet(k)
    \/ \E k \in EntryKeys : mapHas(k)
    \/ callReturns

SpecMap == MapInit /\ [][MapNext]_vars

\* --------------------------------------------------------- the specification
\* The registry, its shutdown, the engine, and callers that write to the
\* system partition through the metadata accessor.
StoreNext ==
    \/ \E n \in StoreNames, o \in Options : createPartition(n, o)
    \/ \E n \in StoreNames, o \in Options : openPartition(n, o)
    \/ \E n \in StoreNames : closePartitionBegin(n)
    \/ \E t \in tasks : closePartitionEnd(t)
    \/ \E n \in StoreNames, c \in BOOLEAN : dropPartitionBegin(n, c)
    \/ \E t \in tasks : dropPartitionEnd(t)
    \/ \E t \in tasks : engineClose(t)
    \/ \E t \in tasks : engineDrop(t)
    \/ \E k \in Keys, v \in Vals : putSync(metadata, k, v)
    \/ \E k \in Keys : removeSync(metadata, k)
    \/ callReturns

Next ==
    \/ StoreNext
    \/ shutdownBegin
    \/ \E t \in tasks : shutdownResume(t)
    \/ \E t \in tasks : shutdownEnd(t)
    \/ \E t \in tasks : engineEnvClose(t)

Spec == Init /\ [][Next]_vars

\* The registry and the engine with a DayPartitionManager on the store.
AllocNext ==
    \/ \E r \in RetentionInputs : newDayPartitionManager(r)
    \/ \E ts \in TsInputs, c \in BOOLEAN : getPartition(ts, c)
    \/ \E t \in tasks : pruneDropFails(t)

SpecAlloc == Init /\ [][StoreNext \/ AllocNext]_vars

\* The registry and the engine with callers that write through every handle
\* they were given (PartitionManager.putSync / removeSync).
DataNext ==
    \/ \E h \in 1..Len(handles), k \in Keys, v \in Vals : putSync(h, k, v)
    \/ \E h \in 1..Len(handles), k \in Keys : removeSync(h, k)

SpecData == Init /\ [][StoreNext \/ DataNext]_vars

\* The allocator on a store whose buckets were created beforehand or are
\* created through it, and the engine carrying out the drops it issues.
BucketNext ==
    \/ \E n \in BucketNames, o \in Options : createPartition(n, o)
    \/ AllocNext
    \/ \E t \in tasks : engineDrop(t)
    \/ callReturns

SpecBuckets == Init /\ [][BucketNext]_vars

\* Date.now() moves on by half a day, up to the middle of the day Today.
clockAdvances ==
    /\ last = Idle
    /\ (now + SECONDS_IN_DAY \div 2) \div SECONDS_IN_DAY <= Today
    /\ now' = now + SECONDS_IN_DAY \div 2
    /\ UNCHANGED <<env, disk, data, handles, partitions, readerVars, tasks, shut, alloc,
                   maxDaysRetention, cache, isPruning, unhandled, mapVars, last>>

\* The store on the day before Today.
ClockInit ==
    /\ StoreInit
    /\ alloc = "none"
    /\ maxDaysRetention = RetentionDisabled
    /\ cache = EmptyMap
    /\ isPruning = FALSE
    /\ unhandled = FALSE
    /\ now = (Today - 1) * SECONDS_IN_DAY + SECONDS_IN_DAY \div 2
    /\ last = Idle

\* The allocator on a store over a day change.
SpecClock == ClockInit /\ [][BucketNext \/ clockAdvances]_vars

\* The partitionPrefix options, names and cutoff the loop's test is tried
\* on: a plain prefix and one with a metacharacter; names with either
\* prefix, with a prefix differing where the metacharacter is, with a
\* longer prefix and with a prefix inside another; followed by nothing, a
\* day before or after the cutoff, seven or nine digits, digits without the
\* underscore, and digits next to another character.
PrefixInputs == {<<"e", "v">>, <<"e", ".">>}
DayOld == DayChars(daySuffix((Today - 2) * SECONDS_IN_DAY))
DayNew == DayChars(daySuffix(Today * SECONDS_IN_DAY))
CutoffInput == DayChars(daySuffix((Today - 1) * SECONDS_IN_DAY))
NameBases == {<<"e", "v">>, <<"e", ".">>, <<"e", "x">>, <<"e", "v", "2">>, <<"x", "e", "v">>}
NameTails ==
    { <<>>, <<"_">> \o DayOld, <<"_">> \o DayNew,
      <<"_">> \o SubSeq(DayOld, 1, 7), <<"_">> \o DayOld \o <<"0">>,
      DayOld, <<"-">> \o DayOld,
      <<"_">> \o DayOld \o <<"x">>, <<"_">> \o SubSeq(DayOld, 1, 7) \o <<"x">> }
NameInputs ==
    {b \o t : b \in NameBases, t \in NameTails} \cup {Chars("_metadata"), Chars("users")}

\* The test the prune loop makes on one listed name, tried on its own
\* before an allocator is constructed.
callPruneSelects(prefix, name, cutoff) ==
    /\ CanCall /\ alloc = "none"
    /\ last' = [op |-> "pruneSelects", name |-> META, h |-> NoHandle,
                res |-> Bool(pruneSelects(prefix, name, cutoff)),
                prefix |-> prefix, chars |-> name, cutoff |-> cutoff]
    /\ UNCHANGED <<env, disk, data, handles, partitions, readerVars, tasks, shut, allocVars, now, mapVars>>

\* The allocator on a store that also holds a partition of another kind,
\* callers writing through the handles, and the loop's test on its own.
PrefixNext ==
    \/ BucketNext
    \/ \E o \in Options : createPartition(PlainName("users"), o)
    \/ \E h \in 1..Len(handles), k \in Keys, v \in Vals : putSync(h, k, v)
    \/ \E p \in PrefixInputs, n \in NameInputs : callPruneSelects(p, n, CutoffInput)

SpecPrefixes == Init /\ [][PrefixNext]_vars

\* The allocator on a store whose listing can fail.
SpecListFails ==
    Init /\ [][BucketNext \/ \E ts \in TsInputs : getPartitionListFails(ts)]_vars

\* Callers of the allocator's day arithmetic.
DayNext ==
    \/ \E ts \in DayInputs : callPartitionName(ts)
    \/ \E ts \in DayInputs : callDayRange(ts)
    \/ callReturns

SpecDay == Init /\ [][DayNext]_vars

\* The registry-less store: openOrCreatePartition and writes through the
\* handles it returned.
OpenOrCreateNext ==
    \/ \E n \in StoreNames, o \in Options : openOrCreatePartition(n, o)
    \/ \E n \in StoreNames : callHasPartition(n)
    \/ DataNext
    \/ callReturns

SpecOpenOrCreate == Init /\ [][OpenOrCreateNext]_vars

\* A ReaderCheckManager of its own on a root database its owner may
\* close: its constructor, its methods, and its interval firing.
ReaderNext ==
    \/ \E p \in PeriodicInputs, i \in BOOLEAN, e \in readerCheck :
          newReaderCheckManager(p, i, e)
    \/ start
    \/ stop
    \/ callIsRunning
    \/ \E e \in readerCheck : callCheck(e)
    \/ \E e \in readerCheck : tick(e)
    \/ ownerCloseBegin
    \/ \E t \in tasks : ownerCloseEnd(t)
    \/ \E t \in tasks : engineEnvClose(t)
    \/ callReturns

SpecReader == ReaderInit /\ [][ReaderNext]_vars

\* The StoreManager with its ReaderCheckManager: shutdown, the interval
\* firing, and callers that reach the manager through the store's field.
OwnerNext ==
    \/ \E n \in StoreNames, o \in Options : createPartition(n, o)
    \/ shutdownBegin
    \/ \E t \in tasks : shutdownResume(t)
    \/ \E t \in tasks : shutdownEnd(t)
    \/ \E t \in tasks : engineClose(t)
    \/ \E t \in tasks : engineEnvClose(t)
    \/ start
    \/ stop
    \/ callIsRunning
    \/ \E e \in readerCheck : tick(e)
    \/ callReturns

SpecOwner == Init /\ [][OwnerNext]_vars

\* Callers that create partitions and write and read entries through the
\* handles they hold (the metadata accessor's among them).
EntriesNext ==
    \/ \E n \in StoreNames, o \in Options : createPartition(n, o)
    \/ \E h \in 1..Len(handles), k \in EntryKeys, v \in EntryVals : callPutSync(h, k, v)
    \/ \E h \in 1..Len(handles), k \in EntryKeys : callGet(h, k)
    \/ \E h \in 1..Len(handles), k \in EntryKeys : callHas(h, k)
    \/ \E h \in 1..Len(handles), k \in EntryKeys : callRemoveSync(h, k)
    \/ \E h \in 1..Len(handles), keys \in KeyLists : callGetMany(h, keys)
    \/ callReturns

SpecEntries == EntriesInit /\ [][EntriesNext]_vars

\* ================================================================ properties
\* No engine call is in flight and no call is about to return: every
\* operation started so far has completed.
Quiescent == tasks = {} /\ last = Idle

\* C1: once every create/open/close/drop and every prune pass has completed,
\* each name in the registry map is a sub-database of the root database and
\* its handle is neither closed nor dropped.
C1_RegistryBackedByLiveHandles ==
    Quiescent => \A n \in Tracked : doesExist(n) /\ Live(partitions[n])

\* C2: createPartition(name) throws "already exists" whenever the name is in
\* the root database, is tracked, or is the reserved name, and a call that
\* throws leaves the registry and the root database as they were.
C2_CreateRejectsExisting ==
    [][(last = Idle /\ last'.op = "createPartition") =>
          /\ (doesExist(last'.name) \/ last'.name \in Tracked \/ last'.name = META)
                => last'.res = "AlreadyExists"
          /\ last'.res = "AlreadyExists" => UNCHANGED <<partitions, disk, handles>>]_vars

\* C3: when createPartition(name) has returned, hasPartition(name) is true,
\* listPartitions() contains name, and the registry tracks name with the
\* handle that was returned, an open one.
C3_CreatedIsListedAndTracked ==
    (last.op = "createPartition" /\ last.res = "ok") =>
        /\ hasPartition(last.name)
        /\ last.name \in listPartitions
        /\ last.name \in Tracked
        /\ partitions[last.name] = last.h
        /\ Live(last.h) /\ handles[last.h].name = last.name

C3_Witness ==
    /\ last.op = "createPartition" /\ last.res = "ok"
    /\ last.name \in listPartitions /\ last.name \in Tracked

\* C4: openPartition(name) on a name that is not in the root database (never
\* created, or dropped) throws "does not exist", creates nothing and adds no
\* registry entry.
C4_OpenMissingFails ==
    [][(last = Idle /\ last'.op = "openPartition" /\ ~doesExist(last'.name)) =>
          /\ last'.res = "NotFound"
          /\ UNCHANGED <<partitions, disk, handles>>]_vars

\* C5: openPartition(name) on a tracked name returns the handle the registry
\* holds (the one the earlier createPartition or openPartition returned),
\* whatever the options, and opens no second handle.
C5_OpenTrackedReturnsSameHandle ==
    [][(last = Idle /\ last'.op = "openPartition" /\ last'.name \in Tracked) =>
          /\ last'.res = "ok"
          /\ last'.h = partitions[last'.name]
          /\ UNCHANGED <<partitions, disk, handles>>]_vars

C5_Witness ==
    /\ last.op = "openPartition" /\ last.res = "ok"
    /\ last.name \in Tracked /\ partitions[last.name] = last.h
    /\ handles[last.h].via = "create"

\* C6: dropPartition(name, confirm) with confirm other than true throws
\* "confirmation required" for every name (tracked, untracked, missing or
\* reserved) and changes nothing: no drop is issued, the registry and the
\* root database stay as they were.
C6_DropRequiresConfirmation ==
    [][\A n \in Names :
          dropPartitionBegin(n, FALSE) =>
              /\ last' = Returned("dropPartition", n, "ConfirmationRequired", NoHandle)
              /\ UNCHANGED <<disk, data, handles, partitions, tasks>>]_vars

\* A handle of name n opened by createPartition after handle h was.
CreatedSince(n, h) ==
    \E g \in (h + 1)..Len(handles) : handles[g].name = n /\ handles[g].via = "create"

\* Name n is neither in the root database nor tracked.
Gone(n) == ~doesExist(n) /\ n \notin Tracked

C8_CloseUntrackedFails ==
    [][\A n \in Names :
          (closePartitionBegin(n) /\ n \notin Tracked) =>
              /\ last' = Returned("closePartition", n, "NotFound", NoHandle)
              /\ UNCHANGED <<env, disk, data, handles, partitions, readerVars, tasks, shut,
                             allocVars, now>>]_vars

C8_Witness ==
    /\ last = Returned("closePartition", last.name, "NotFound", NoHandle)
    /\ last.name \notin Tracked /\ doesExist(last.name)

\* C9 (as stated): closePartition(name) on a tracked name removes the
\* registry entry even when the engine's close fails, and the failure is
\* not surfaced to the caller: the call returns normally.
C9_CloseFailureNotSurfaced ==
    [][\A t \in tasks :
          closePartitionEnd(t) =>
              /\ t.name \notin DOMAIN partitions'
              /\ last'.res = "ok"]_vars

\* C9 (amended): closePartition(name) on a tracked name removes the registry
\* entry whether the engine's close succeeds or fails, and a failed close is
\* rethrown to the caller as "Failed to close partition ...".
C9_CloseForgetsAndRethrows ==
    [][\A t \in tasks :
          closePartitionEnd(t) =>
              /\ t.name \notin DOMAIN partitions'
              /\ last' = Returned("closePartition", t.name,
                                  IF t.st = "ok" THEN "ok" ELSE "CloseFailed", t.h)]_vars

C9_Witness ==
    /\ last.op = "closePartition" /\ last.res = "CloseFailed"
    /\ last.name \notin Tracked /\ Live(last.h)

\* C10: the system partition exists from construction on; in every state
\* it is in the root database, is not listed by listPartitions() and is not
\* in the registry, no drop of it is ever issued, and createPartition,
\* openPartition and dropPartition with the reserved name all throw and
\* leave the partition, its handle and its entries as they were.
C10_SystemPartitionReserved ==
    /\ [](/\ doesExist(META) /\ META \notin listPartitions /\ META \notin Tracked
          /\ handles[metadata].name = META /\ handles[metadata].st # "dropped"
          /\ \A t \in tasks : t.call = "drop" => t.name # META)
    /\ [][(last = Idle /\ last'.name = META
              /\ last'.op \in {"createPartition", "openPartition", "dropPartition"}) =>
            /\ last'.res \in {"AlreadyExists", "NotOpenable", "NotFound"}
            /\ UNCHANGED <<disk, data, handles, partitions, tasks>>]_vars

C10_Witness ==
    /\ last.name = META /\ last.op = "dropPartition" /\ last.res = "NotFound"
    /\ data[META]["k"] = "v" /\ partitions # EmptyMap

\* C11: closePartition(name) only removes the registry entry: neither the
\* engine call it issues nor its completion changes the root database or any
\* entry, and on return name is untracked.  While name is on disk and
\* untracked (closed and not dropped), hasPartition(name) is true,
\* listPartitions() contains name, createPartition(name) throws "already
\* exists", and openPartition(name) succeeds, tracks name with a new open
\* handle and reads through it every value the sub-database held.
C11_CloseOnlyUnregisters ==
    [][\A n \in Names \ {META} :
          /\ \A t \in tasks :
                (t.name = n /\ t.owner = "closePartition") =>
                    /\ (engineClose(t) \/ engineDrop(t) \/ closePartitionEnd(t))
                          => UNCHANGED <<disk, data>>
                    /\ closePartitionEnd(t) => n \notin DOMAIN partitions'
          /\ (doesExist(n) /\ n \notin Tracked) =>
                /\ hasPartition(n) /\ n \in listPartitions
                /\ (last = Idle /\ last'.op = "createPartition" /\ last'.name = n)
                      => last'.res = "AlreadyExists"
                /\ (last = Idle /\ last'.op = "openPartition" /\ last'.name = n) =>
                      /\ last'.res = "ok"
                      /\ n \in DOMAIN partitions' /\ partitions'[n] = last'.h
                      /\ handles'[last'.h] = [name |-> n, st |-> "open", via |-> "open"]
                      /\ \A k \in Keys : data'[handles'[last'.h].name][k] = data[n][k]]_vars

C11_Witness ==
    /\ last.op = "openPartition" /\ last.res = "ok" /\ handles[last.h].via = "open"
    /\ \E g \in 1..(last.h - 1) : handles[g].name = last.name /\ handles[g].st = "closed"
    /\ get(last.h, "k") = "v"

\* C12: openOrCreatePartition(name) never throws "already exists": it
\* returns an open handle of name, creating the sub-database only when the
\* root database does not have it (the first call) and leaving every entry
\* as it was; and a value written through one handle of a name is read
\* through every handle of that name.
C12_OpenOrCreateRepeatable ==
    /\ [][(last = Idle /\ last'.op = "openOrCreatePartition") =>
            /\ last'.res = "ok"
            /\ handles' = Append(handles, handles'[last'.h])
            /\ handles'[last'.h].name = last'.name /\ handles'[last'.h].st = "open"
            /\ handles'[last'.h].via = "create" <=> ~doesExist(last'.name)
            /\ disk' = disk \cup {last'.name}
            /\ data' = data]_vars
    /\ [][\A h \in 1..Len(handles), k \in Keys, v \in Vals :
            putSync(h, k, v) =>
                \A g \in 1..Len(handles) :
                    handles[g].name = handles[h].name => data'[handles'[g].name][k] = v]_vars

C12_Witness ==
    /\ last.op = "openOrCreatePartition" /\ last.res = "ok" /\ handles[last.h].via = "open"
    /\ \E g \in 1..(last.h - 1) :
          /\ handles[g].name = last.name /\ handles[g].via = "create"
          /\ get(g, "k") = "v"
    /\ get(last.h, "k") = "v"

\* The steps of shutdown() in order: the timer is stopped in the step that
\* starts shutdown, before any close is issued; the close of the root
\* database is issued only with the timer stopped and the registry empty;
\* and when the close of a partition has settled, carried out or failed,
\* shutdown removes its entry and goes on to the next tracked partition, or
\* to the root database when none is left.
ShutdownInOrder ==
    /\ (shut = "idle" /\ shut' # "idle") => (~timer' /\ partitions' = partitions)
    /\ (\E t \in tasks' \ tasks : t.call = "envclose" /\ t.st = "pending") =>
            (~timer' /\ partitions' = EmptyMap)
    /\ \A t \in tasks :
          shutdownResume(t) =>
              /\ t.name \notin DOMAIN partitions'
              /\ IF DOMAIN partitions' = {}
                 THEN shut' = "envclose"
                      /\ \E u \in tasks' \ tasks :
                            u.owner = "shutdown" /\ u.call = "envclose" /\ u.st = "pending"
                 ELSE shut' = "closing"
                      /\ \E u \in tasks' \ tasks :
                            /\ u.owner = "shutdown" /\ u.call = "close" /\ u.st = "pending"
                            /\ u.name \in DOMAIN partitions' /\ u.h = partitions'[u.name]

C14_OpenPartitionsAreSingletons ==
    \A h \in 1..Len(handles) :
        (Live(h) /\ handles[h].name # META) =>
            /\ handles[h].name \in Tracked
            /\ partitions[handles[h].name] = h

\* C15: while closePartition(name) or dropPartition(name) is suspended on
\* its engine call, no openPartition(name) and no getPartition resolving to
\* name returns the handle that is being closed or dropped.
C15_CloseAndDropAreAtomic ==
    [][(last = Idle /\ last'.res = "ok" /\ last'.op \in {"openPartition", "getPartition"}) =>
          \A t \in tasks :
              (t.owner \in {"closePartition", "dropPartition"} /\ t.name = last'.name)
                  => t.h # last'.h]_vars

\* C16: dropPartition(name, true) on a name that is in the root database
\* goes through whether or not the name is tracked (an untracked partition
\* is opened for the drop): the drop is issued, and the call throws "does
\* not exist" only when the root database does not have the name.
C16_DropUntrackedOnDisk ==
    [][\A n \in Names \ {META} :
          (dropPartitionBegin(n, TRUE) /\ doesExist(n)) =>
              /\ UNCHANGED last
              /\ \E t \in tasks' \ tasks :
                    t.owner = "dropPartition" /\ t.call = "drop" /\ t.name = n]_vars

\* The day number (days since 1970-01-01) of the civil date y-m-d.
DaysFromCivil(y, m, d) ==
    LET yy  == IF m <= 2 THEN y - 1 ELSE y
        era == yy \div 400
        yoe == yy - era * 400
        doy == (153 * (IF m > 2 THEN m - 3 ELSE m + 9) + 2) \div 5 + d - 1
        doe == yoe * 365 + yoe \div 4 - yoe \div 100 + doy
    IN  era * 146097 + doe - 719468

\* sfx spells YYYYMMDD of the UTC day with day number day.
IsYMDOfDay(sfx, day) ==
    LET y == sfx \div 10000
        m == (sfx \div 100) % 100
        d == sfx % 100
    IN  m \in 1..12 /\ d \in 1..31 /\ DaysFromCivil(y, m, d) = day

\* C17: partitionName(t1) = partitionName(t2) if and only if
\* floor(t1/86400) = floor(t2/86400) (so adjacent days get different names),
\* and the name is <prefix>_<YYYYMMDD> of the UTC day of the timestamp.
C17_SameDaySameName ==
    last.op = "partitionName" =>
        /\ last.name.pfx = PartitionPrefix
        /\ IsYMDOfDay(last.name.sfx, last.ts \div 86400)
        /\ \A i \in 1..Len(last.prev) :
              (last.name = last.prev[i].name)
                  <=> (last.ts \div 86400 = last.prev[i].ts \div 86400)

C17_Witness ==
    /\ last.op = "partitionName" /\ Len(last.prev) = 1
    /\ last.prev[1].ts # last.ts /\ last.prev[1].name = last.name
    /\ last.ts < 0

\* C18: for every integer timestamp t, negative ones included, dayRange(t)
\* has start <= t <= end, start a multiple of 86400 and end = start + 86399
\* (so start = floor(t/86400) * 86400), and partitionName(start) =
\* partitionName(t) = partitionName(end).
C18_DayRangeBrackets ==
    last.op = "dayRange" =>
        /\ last.range.start <= last.ts /\ last.ts <= last.range.end
        /\ last.range.start % 86400 = 0
        /\ last.range.end = last.range.start + 86399
        /\ partitionName(last.range.start) = partitionName(last.ts)
        /\ partitionName(last.range.end) = partitionName(last.ts)

C18_Witness ==
    /\ last.op = "dayRange" /\ last.ts < 0
    /\ last.range.start < last.ts /\ last.ts = last.range.end

\* The day number of the UTC day a bucket name spells.
DayOfName(n) == DaysFromCivil(n.sfx \div 10000, (n.sfx \div 100) % 100, n.sfx % 100)

\* C19: with retention R = maxDaysRetention > 0 and current UTC day N,
\* getPartition(t) throws "in the future" when the day of t is after N,
\* throws "outside retention window" when it is N-R or earlier, and passes
\* validation exactly for the days N-R+1 .. N; a call that fails validation
\* opens, creates and caches nothing.  (The day of t is read off the bucket
\* name the call reports.)
C19_RetentionWindow ==
    [][(last = Idle /\ last'.op = "getPartition" /\ maxDaysRetention > 0) =>
              LET N == now \div 86400
                  d == DayOfName(last'.name)
                  R == maxDaysRetention
              IN  /\ d > N => last'.res = "FutureTimestamp"
                  /\ d <= N - R => last'.res = "OutOfRetention"
                  /\ (N - R + 1 <= d /\ d <= N) => last'.res \in {"ok", "absent"}
                  /\ last'.res \in {"FutureTimestamp", "OutOfRetention"} =>
                        UNCHANGED <<disk, data, handles, partitions, cache, tasks>>]_vars

C19_Witness ==
    /\ last.op = "getPartition" /\ last.res = "ok"
    /\ maxDaysRetention = 2 /\ last.name = partitionName(now - 86400)
    /\ last.name \in DOMAIN cache

\* A step in which a prune pass runs with retention R > 0: the allocator is
\* constructed, or getPartition has just created a bucket.
PrunePassRuns ==
    /\ last = Idle /\ last'.res = "ok" /\ maxDaysRetention' > 0
    /\ \/ last'.op = "newDayPartitionManager"
       \/ /\ last'.op = "getPartition" /\ last'.h > Len(handles)
          /\ handles'[last'.h].via = "create"

C21_NoOverlappingPrune ==
    [][PrunePassRuns =>
          \A n \in pruneExpired(maxDaysRetention') :
              ~\E t \in tasks : t.owner = "prune" /\ t.name = n /\ t.st = "pending"]_vars

\* C22: the allocator's cache is a subset of the registry map: every name it
\* caches is tracked by the registry with the same handle, and a getPartition
\* that returns a handle returns one the registry tracks under that name.
C22_CacheWithinRegistry ==
    /\ \A n \in DOMAIN cache : n \in Tracked /\ partitions[n] = cache[n]
    /\ (last.op = "getPartition" /\ last.res = "ok") =>
          (last.name \in Tracked /\ partitions[last.name] = last.h)

\* C23: for a bucket inside the retention window that is not in the root
\* database, getPartition(t, false) returns absent and changes nothing (no
\* partition, no cache or registry entry, no prune pass), and
\* getPartition(t, true) creates the bucket, once, and returns the handle it
\* created.
C23_AbsentBucketGetOrCreate ==
    [][(/\ last = Idle /\ last'.op = "getPartition"
        /\ last'.res \notin {"FutureTimestamp", "OutOfRetention"}
        /\ ~doesExist(last'.name)) =>
          IF ~last'.create
          THEN /\ last'.res = "absent"
               /\ UNCHANGED <<disk, data, handles, partitions, tasks, cache>>
          ELSE /\ last'.res = "ok"
               /\ last'.h = Len(handles) + 1
               /\ Len(handles') = Len(handles) + 1
               /\ handles'[last'.h] = [name |-> last'.name, st |-> "open", via |-> "create"]
               /\ disk' = disk \cup {last'.name}]_vars

\* C24: a handle getPartition returns is in the allocator's cache under the
\* bucket's name; a cache entry stays as it is until a prune pass drops its
\* bucket; and getPartition(t', create) for a cached bucket, t' inside the
\* retention window, returns the cached handle from the cache, whatever
\* create is, creating, opening and pruning nothing.
C24_CachedBucketReused ==
    [][/\ (last = Idle /\ last'.op = "getPartition" /\ last'.res = "ok") =>
            (last'.name \in DOMAIN cache' /\ cache'[last'.name] = last'.h)
       /\ \A n \in DOMAIN cache :
            \/ n \in DOMAIN cache' /\ cache'[n] = cache[n]
            \/ \E t \in tasks' : t.owner = "prune" /\ t.call = "drop" /\ t.name = n
       /\ (/\ last = Idle /\ last'.op = "getPartition"
           /\ last'.res \notin {"FutureTimestamp", "OutOfRetention"}
           /\ last'.name \in DOMAIN cache) =>
             /\ last'.res = "ok" /\ last'.from = "cache"
             /\ last'.h = cache[last'.name]
             /\ UNCHANGED <<disk, data, handles, partitions, tasks, cache>>]_vars

\* A second getPartition(t', true) on the day of a bucket that an earlier
\* getPartition created: answered from the cache with the handle created
\* then.
C24_Witness ==
    /\ last.op = "getPartition" /\ last.res = "ok" /\ last.from = "cache"
    /\ last.create /\ last.ts % SECONDS_IN_DAY # 0
    /\ handles[last.h] = [name |-> last.name, st |-> "open", via |-> "create"]
    /\ Cardinality({h \in 1..Len(handles) : handles[h].name = last.name}) = 1

\* C25: constructing the allocator with a maxDaysRetention that is neither
\* the sentinel -1 nor a positive integer (0, another negative number, a
\* non-integer) throws InvalidRetention, constructs nothing and runs no
\* prune pass; with the sentinel or a positive integer it succeeds and keeps
\* that value.
C25_InvalidRetentionRejected ==
    [][(last = Idle /\ last'.op = "newDayPartitionManager") =>
          LET r == last'.arg
              positiveInteger == r.num % r.den = 0 /\ r.num > 0
              sentinel == r.num = -1 * r.den
          IN  IF positiveInteger \/ sentinel
              THEN /\ last'.res = "ok" /\ alloc' = "ready"
                   /\ maxDaysRetention' * r.den = r.num
              ELSE /\ last'.res = "InvalidRetention"
                   /\ UNCHANGED <<disk, data, handles, partitions, tasks, allocVars>>]_vars

\* 1.5 days was refused while an expired bucket was waiting to be pruned.
C25_Witness ==
    /\ last.op = "newDayPartitionManager" /\ last.res = "InvalidRetention"
    /\ last.arg = Num(3, 2)
    /\ alloc = "none" /\ tasks = {}
    /\ partitionName((Today - 2) * 86400) \in listPartitions

\* C26: at most one interval is scheduled at any time, and isRunning() is
\* true exactly when one is: start() with the timer set schedules nothing,
\* stop() with no timer set does nothing.
C26_AtMostOneTimer ==
    [][/\ intervals' <= 1
       /\ isRunning' = (intervals' = 1)
       /\ (last = Idle /\ last'.op = "isRunning") => ((last'.res = "true") = (intervals' = 1))
       /\ (last = Idle /\ last'.op = "start" /\ timer) => UNCHANGED <<timer, intervals>>
       /\ (last = Idle /\ last'.op = "start" /\ ~timer) => (timer' /\ intervals' = 1)
       /\ (last = Idle /\ last'.op = "stop" /\ ~timer) => UNCHANGED <<timer, intervals>>
       /\ (last = Idle /\ last'.op = "stop" /\ timer) => (~timer' /\ intervals' = 0)]_vars

\* start() was called with the timer set.
C26_Witness ==
    /\ last.op = "start" /\ last.was
    /\ timer /\ intervals = 1

\* C27: stop() and the first step of shutdown(), before any partition or
\* the environment is closed, leave no timer set and no interval scheduled;
\* from then on, until start() is called, isRunning() is false, no interval
\* is scheduled, and so none fires: an interval fires only with the timer
\* set.
C27_StoppedStaysStopped ==
    [][/\ (last = Idle /\ last'.op = "stop") => (~timer' /\ intervals' = 0)
       /\ (shut = "idle" /\ shut' # "idle") =>
             (~timer' /\ intervals' = 0 /\ UNCHANGED <<env, handles>>)
       /\ (~timer /\ last'.op # "start") => (~timer' /\ intervals' = 0)
       /\ (last = Idle /\ last'.op = "tick") => (timer /\ intervals > 0)
       /\ (last = Idle /\ last'.op = "isRunning" /\ ~timer) => last'.res = "false"]_vars

\* shutdown() has closed the environment after intervals had fired, and
\* isRunning() answers false.
C27_Witness ==
    /\ shut = "done" /\ env = "closed"
    /\ last.op = "isRunning" /\ last.res = "false"
    /\ ~timer /\ intervals = 0 /\ checks >= 2

\* C28: the constructor invokes readerCheck() once when initialCheck is
\* true and not at all otherwise, and leaves the timer set, with one
\* interval scheduled, exactly when periodicMs > 0.
C28_ConstructorChecksAndStarts ==
    [][(last = Idle /\ last'.op = "newReaderCheckManager") =>
          /\ last'.res = "ok" /\ rcm' = "made"
          /\ checks' = checks + (IF last'.initialCheck THEN 1 ELSE 0)
          /\ isRunning' = (last'.periodicMs > 0)
          /\ intervals' = (IF last'.periodicMs > 0 THEN 1 ELSE 0)]_vars

\* Constructed with initialCheck and periodicMs = 0: one check, no timer.
C28_Witness ==
    /\ last.op = "newReaderCheckManager" /\ last.res = "ok"
    /\ last.initialCheck /\ last.periodicMs = 0
    /\ checks = 1 /\ ~timer /\ intervals = 0

\* C29: when the engine's readerCheck() throws, check() returns normally,
\* to a caller, to the constructor (which goes on to start the timer), and
\* to the interval's callback, and the interval stays scheduled.
C29_CheckSwallowsErrors ==
    [][(last = Idle /\ last'.op \in {"check", "tick", "newReaderCheckManager"}
        /\ last'.engine = "throws") =>
          /\ last'.res = "ok"
          /\ last'.op \in {"check", "tick"} => UNCHANGED <<timer, intervals, rcm>>
          /\ last'.op = "tick" => intervals' > 0
          /\ last'.op = "newReaderCheckManager" =>
                (rcm' = "made" /\ isRunning' = (last'.periodicMs > 0))]_vars

\* The interval fired on the closed environment, readerCheck() threw, and
\* the interval is still scheduled.
C29_Witness ==
    /\ last.op = "tick" /\ last.engine = "throws" /\ last.res = "ok"
    /\ env = "closed"
    /\ timer /\ intervals = 1

\* The entries of every key but k of sub-database n, and of every other
\* sub-database, are the same after the step.
OtherEntriesKept(n, k) ==
    \A m \in DOMAIN data : \A j \in DOMAIN data[m] :
        (m # n \/ j # k) => data'[m][j] = data[m][j]

C32_ReadOnlyRefusesWrites ==
    [][(last = Idle /\ last' # Idle /\ readOnly) =>
          /\ last'.op \in {"set", "del", "clear", "transaction"} =>
                /\ last'.res = ReadOnlyViolation
                /\ data' = data
                /\ txn' = txn
          /\ last'.op = "get" => last'.res = data[META][last'.key]
          /\ last'.op = "has" => last'.res = Bool(data[META][last'.key] # Absent)]_vars

\* A map constructed without options refuses set("a", "v") over the entry an
\* earlier writable map stored.
C32_Witness ==
    /\ readOnly
    /\ last.op = "set" /\ last.key = "a" /\ last.val = "v"
    /\ last.res = ReadOnlyViolation
    /\ data[META]["a"] = "w"

\* The prune pass at the current time with the current retention would drop
\* the bucket of tsSec if the root database had it.
PruneWouldDrop(tsSec) ==
    pruneSelects(Chars(PartitionPrefix), NameChars(partitionName(tsSec)),
                 DayChars(pruneCutoff(maxDaysRetention)))

C35_ValidatedBeforeCache ==
    /\ [][(last = Idle /\ last'.op = "getPartition" /\ maxDaysRetention > 0
             /\ last'.h # NoHandle) =>
            /\ DayOfName(last'.name) <= now \div SECONDS_IN_DAY
            /\ now \div SECONDS_IN_DAY - DayOfName(last'.name) < maxDaysRetention
            /\ ~PruneWouldDrop(last'.ts)]_vars
    /\ \A n \in BucketNames :
          []((\E t \in tasks : t.owner = "prune" /\ t.name = n) =>
                [](~(last.op = "getPartition" /\ last.name = n /\ last.h # NoHandle)))

\* A bucket cached yesterday is refused today although its handle is still
\* open and still in the cache.
C35_Witness ==
    /\ last.op = "getPartition" /\ last.res = "OutOfRetention"
    /\ maxDaysRetention = 1
    /\ last.name \in DOMAIN cache /\ Live(cache[last.name])
    /\ last.name \in listPartitions

\* C36: when the drop of one expired bucket fails, the prune pass catches
\* and logs the failure (no rejection is left without a handler), the
\* other drops of the pass stay in flight, the failing bucket is not in the
\* allocator's cache, and no caller is handed an error.
C36_DropFailureCaughtAndLogged ==
    [][\A t \in tasks :
          pruneDropFails(t) =>
              /\ ~unhandled'
              /\ t.name \notin DOMAIN cache'
              /\ \A u \in tasks \ {t} : u \in tasks'
              /\ last' = last]_vars

\* The string is prefix, "_" and exactly eight digits.
IsBucketOf(prefix, chars) ==
    /\ Len(chars) = Len(prefix) + 9
    /\ SubSeq(chars, 1, Len(prefix)) = prefix
    /\ chars[Len(prefix) + 1] = "_"
    /\ \A i \in (Len(prefix) + 2)..(Len(prefix) + 9) : chars[i] \in Digits

\* C37: the prune loop's test selects a name only if it is the prefix, "_"
\* and exactly eight digits (and then exactly when the digits are before the
\* cutoff); a prune pass calls drop() only for such names, and neither the
\* pass nor the engine carrying out one of its drops changes the entries, the
\* listing, the registry entry or the handle of any other partition (the
\* system partition and partitions of other kinds included).
C37_PruneTouchesBucketsOnly ==
    [][/\ (last = Idle /\ last'.op = "pruneSelects") =>
            (last'.res = "true") <=>
                (/\ IsBucketOf(last'.prefix, last'.chars)
                 /\ strLess(SubSeq(last'.chars, Len(last'.prefix) + 2, Len(last'.chars)),
                            last'.cutoff))
       /\ PrunePassRuns =>
            /\ \A t \in tasks' :
                  (t.owner = "prune" /\ t.st = "pending") =>
                      IsBucketOf(Chars(PartitionPrefix), NameChars(t.name))
            /\ data' = data
            /\ \A n \in Names :
                  ~IsBucketOf(Chars(PartitionPrefix), NameChars(n)) =>
                      /\ n \in disk' <=> n \in disk
                      /\ MapGet(partitions', n) = MapGet(partitions, n)
            /\ \A h \in 1..Len(handles) : handles'[h] = handles[h]
       /\ \A t \in tasks :
            (t.owner = "prune" /\ engineDrop(t)) =>
                /\ IsBucketOf(Chars(PartitionPrefix), NameChars(t.name))
                /\ \A n \in Names \ {t.name} :
                      /\ data'[n] = data[n]
                      /\ n \in disk' <=> n \in disk
                /\ partitions' = partitions
                /\ \A h \in 1..Len(handles) :
                      handles[h].name # t.name => handles'[h] = handles[h]]_vars

\* A prune pass has dropped the bucket of two days ago while the partition
\* "users" and the system partition keep their entries, their place in the
\* root database and their open handles.
C37_Witness ==
    /\ maxDaysRetention = 1
    /\ partitionName((Today - 2) * SECONDS_IN_DAY) \notin disk
    /\ \E h \in 1..Len(handles) :
          /\ handles[h].name = partitionName((Today - 2) * SECONDS_IN_DAY)
          /\ handles[h].st = "dropped"
    /\ PlainName("users") \in listPartitions
    /\ data[PlainName("users")]["k"] = "v" /\ data[META]["k"] = "v"
    /\ Live(MapGet(partitions, PlainName("users")))
    /\ Live(metadata)

\* C38: the single-flight flag is never left set: isPruning is false after
\* every call, also after a prune pass in which listing the partitions threw
\* or whose drops fail, and the next pass after such a failure runs: it calls
\* drop() for every expired bucket the root database holds.
C38_FlagAlwaysReleased ==
    /\ [](~isPruning)
    /\ [][PrunePassRuns =>
            \A n \in pruneExpired(maxDaysRetention') :
                \/ \E t \in tasks' : t.owner = "prune" /\ t.name = n /\ t.st = "pending"
                \/ n \notin disk']_vars

\* A pass in which listing threw has ended with the flag released.
C38_Witness ==
    /\ last.op = "getPartition" /\ last.res = "ListFailed"
    /\ maxDaysRetention = 1
    /\ ~isPruning
    /\ partitionName((Today - 2) * SECONDS_IN_DAY) \in listPartitions

\* C39: with maxDaysRetention = -1 no getPartition call fails with
\* FutureTimestamp or OutOfRetention, whatever the timestamp, and neither the
\* constructor nor a getPartition call calls drop() on a partition, removes
\* one from the root database or removes an entry from the allocator's cache;
\* no partition is ever dropped.
C39_DisabledRetentionKeepsAll ==
    /\ [][(/\ last = Idle /\ last'.op \in {"getPartition", "newDayPartitionManager"}
           /\ alloc' = "ready" /\ maxDaysRetention' = RetentionDisabled) =>
            /\ last'.res \in {"ok", "absent"}
            /\ tasks' = tasks
            /\ \A n \in disk : n \in disk'
            /\ \A n \in DOMAIN cache : n \in DOMAIN cache' /\ cache'[n] = cache[n]
            /\ \A h \in 1..Len(handles) : handles'[h] = handles[h]]_vars
    /\ []((alloc = "ready" /\ maxDaysRetention = RetentionDisabled) =>
            /\ \A t \in tasks : t.owner # "prune"
            /\ \A h \in 1..Len(handles) : handles[h].st # "dropped")

\* With retention disabled a timestamp of tomorrow is answered (absent)
\* while the bucket of two days ago, created through the allocator, is still
\* cached, open and listed.
C39_Witness ==
    /\ maxDaysRetention = RetentionDisabled /\ alloc = "ready"
    /\ last.op = "getPartition" /\ last.res = "absent"
    /\ last.ts \div SECONDS_IN_DAY = Today + 1
    /\ partitionName((Today - 2) * SECONDS_IN_DAY) \in DOMAIN cache
    /\ Live(cache[partitionName((Today - 2) * SECONDS_IN_DAY)])
    /\ handles[cache[partitionName((Today - 2) * SECONDS_IN_DAY)]].via = "create"
    /\ partitionName((Today - 2) * SECONDS_IN_DAY) \in listPartitions

\* C40: a reader check constructed with periodicMs = 0 never has a timer:
\* none is scheduled by the constructor, isRunning() stays false and no
\* interval fires, also after start() is called.
C40_ZeroDisablesPeriodic ==
    [][(rcm' = "made" /\ periodicMs' = 0) =>
          /\ ~isRunning' /\ intervals' = 0
          /\ (last = Idle /\ last'.op = "isRunning") => last'.res = "false"
          /\ ~(last = Idle /\ last'.op = "tick")]_vars

====
